---- MODULE Spec2Model ----
(***************************************************************************)
(* Model of the JoBird chat server (src/geminiService.ts): the hybrid      *)
(* product search, the supplemental passes of the chat stream handler and  *)
(* the citation filter.  Text is modelled as TLA+ strings; a character is  *)
(* a string of length one.  Similarities are scaled by 100 (2.0 = 200).    *)
(***************************************************************************)
EXTENDS Integers, Sequences, FiniteSets, TLC

(***************************************************************************)
(* Strings                                                                 *)
(***************************************************************************)
UpperAlpha == "ABCDEFGHIJKLMNOPQRSTUVWXYZ"

LowerAlpha == "abcdefghijklmnopqrstuvwxyz"

Digits == "0123456789"

\* the character at 0-based offset i of s ("" past the end)
CharAt(s, i) == IF i >= 0 /\ i < Len(s) THEN SubSeq(s, i + 1, i + 1) ELSE ""

InStr(c, chars) == c # "" /\ \E k \in 1..Len(chars) : SubSeq(chars, k, k) = c

LowerOf == [k \in 1..26 |-> SubSeq(LowerAlpha, k, k)]

UpperOf == [k \in 1..26 |-> SubSeq(UpperAlpha, k, k)]

LowerChar(c) == IF \E k \in 1..26 : UpperOf[k] = c THEN LowerOf[CHOOSE k \in 1..26 : UpperOf[k] = c] ELSE c

UpperChar(c) == IF \E k \in 1..26 : LowerOf[k] = c THEN UpperOf[CHOOSE k \in 1..26 : LowerOf[k] = c] ELSE c

RECURSIVE ToLowerCase(_)
\* String.prototype.toLowerCase
ToLowerCase(s) ==
    IF Len(s) <= 1 THEN LowerChar(s)
    ELSE ToLowerCase(SubSeq(s, 1, Len(s) \div 2)) \o ToLowerCase(SubSeq(s, Len(s) \div 2 + 1, Len(s)))

RECURSIVE ToUpperCase(_)
\* String.prototype.toUpperCase
ToUpperCase(s) ==
    IF Len(s) <= 1 THEN UpperChar(s)
    ELSE ToUpperCase(SubSeq(s, 1, Len(s) \div 2)) \o ToUpperCase(SubSeq(s, Len(s) \div 2 + 1, Len(s)))

\* String.prototype.startsWith
StartsWith(s, p) == Len(p) <= Len(s) /\ SubSeq(s, 1, Len(p)) = p

\* String.prototype.includes
Includes(s, p) == \E i \in 0..(Len(s) - Len(p)) : SubSeq(s, i + 1, i + Len(p)) = p

SetMax(S) == CHOOSE x \in S : \A y \in S : y <= x

SetMin(S) == CHOOSE x \in S : \A y \in S : x <= y

Min(a, b) == IF a < b THEN a ELSE b

(***************************************************************************)
(* Regular expressions.  A pattern is a tree of records; every pattern of  *)
(* the program carries the i flag, so patterns are written in lower case   *)
(* and matched against the lower-cased text.  Ends(re, s, i) is the set of *)
(* offsets at which a match of re that starts at offset i of s can end.    *)
(***************************************************************************)
Lit(str) == [t |-> "lit", s |-> str]

Cls(chars) == [t |-> "cls", chars |-> chars, neg |-> FALSE]

NotCls(chars) == [t |-> "cls", chars |-> chars, neg |-> TRUE]

Cat(rs) == [t |-> "seq", rs |-> rs]

Alt(rs) == [t |-> "alt", rs |-> rs]

\* r{lo,hi}; hi = -1 is unbounded
Rep(r, lo, hi) == [t |-> "rep", r |-> r, lo |-> lo, hi |-> hi]

Star(r) == Rep(r, 0, -1)

Plus(r) == Rep(r, 1, -1)

Opt(r) == Rep(r, 0, 1)

WB == [t |-> "wb"]

WordChars == LowerAlpha \o Digits \o "_"

Ws == Cls(" \t\n\r")

Digit == Cls(Digits)

Letter == Cls(LowerAlpha)

AnyChar == NotCls("\n\r")

IsWordAt(s, i) == InStr(CharAt(s, i), WordChars)

\* the character at offset i of s is one the class cls matches
ClsAt(cls, s, i) == i < Len(s) /\ (InStr(CharAt(s, i), cls.chars) # cls.neg)

\* the ends of a repeated class from offset i: one per admitted length of
\* the run of matching characters, which stops at the first offset the class
\* does not match or when re.hi characters are taken
EndsRepCls(re, s, i) ==
    LET last == IF re.hi >= 0 /\ i + re.hi < Len(s) THEN i + re.hi ELSE Len(s)
    IN  (i + re.lo)..SetMin({a \in i..last : ~ClsAt(re.r, s, a)} \cup {last})

RECURSIVE Ends(_, _, _)
RECURSIVE EndsSeq(_, _, _, _)
RECURSIVE EndsRep(_, _, _, _, _)
Ends(re, s, i) ==
    CASE re.t = "lit" -> IF i + Len(re.s) <= Len(s) /\ SubSeq(s, i + 1, i + Len(re.s)) = re.s
                         THEN {i + Len(re.s)} ELSE {}
      [] re.t = "cls" -> IF ClsAt(re, s, i) THEN {i + 1} ELSE {}
      [] re.t = "wb"  -> IF IsWordAt(s, i - 1) # IsWordAt(s, i) THEN {i} ELSE {}
      [] re.t = "seq" -> EndsSeq(re.rs, 1, s, {i})
      [] re.t = "alt" -> UNION {Ends(re.rs[k], s, i) : k \in 1..Len(re.rs)}
      [] re.t = "rep" -> IF re.r.t = "cls" THEN EndsRepCls(re, s, i)
                         ELSE EndsRep(re, s, {i}, 0, {})

\* the ends of rs[k..] started from any offset of the set from
EndsSeq(rs, k, s, from) ==
    IF k > Len(rs) \/ from = {} THEN from
    ELSE EndsSeq(rs, k + 1, s, UNION {Ends(rs[k], s, j) : j \in from})

\* from: the offsets reached after n repetitions; acc: the ends collected
EndsRep(re, s, from, n, acc) ==
    LET acc2 == IF n >= re.lo THEN acc \cup from ELSE acc
        next == UNION {Ends(re.r, s, j) : j \in from} \ (IF n >= re.lo THEN acc2 ELSE {})
    IN  IF from = {} \/ (re.hi >= 0 /\ n >= re.hi) THEN acc2
        ELSE EndsRep(re, s, next, n + 1, acc2)

\* RegExp.prototype.test (flag i)
Test(re, s) == \E i \in 0..Len(s) : Ends(re, ToLowerCase(s), i) # {}

RECURSIVE MatchesAmong(_, _, _, _)
\* the matches taken from offset i on, starts being the offsets at which a
\* match can start
MatchesAmong(re, s, starts, i) ==
    LET later == {a \in starts : a >= i}
    IN  IF later = {} THEN <<>>
        ELSE LET a == SetMin(later)
                 j == SetMax(Ends(re, s, a))
             IN  <<(<<a, j>>)>> \o MatchesAmong(re, s, starts, IF j = a THEN a + 1 ELSE j)

\* the matches of a g-flag pattern from offset i on: <<start, end>> pairs,
\* leftmost first, each the longest at its start, the scan resuming at its end
MatchAllFrom(re, s, i) == MatchesAmong(re, s, {a \in i..Len(s) : Ends(re, s, a) # {}}, i)

\* String.prototype.matchAll / repeated exec: the matched substrings of s
MatchAll(re, s) ==
    LET ms == MatchAllFrom(re, ToLowerCase(s), 0)
    IN  [k \in 1..Len(ms) |-> SubSeq(s, ms[k][1] + 1, ms[k][2])]

\* String.prototype.match without the g flag: <<>> or <<first match>>
MatchFirst(re, s) ==
    LET ms == MatchAll(re, s) IN IF Len(ms) = 0 THEN <<>> ELSE <<ms[1]>>

(***************************************************************************)
(* The product store.  The catalog is read-only; a store of size n holds   *)
(* the records with ids 1..n.  specifications is the JSON text of the      *)
(* structured column.                                                      *)
(***************************************************************************)
TwoDigits(n) == CharAt(Digits, n \div 10) \o CharAt(Digits, n % 10)

Product(id) ==
    CASE id = 1 -> [id |-> 1, product_code |-> "JB02HR", name |-> "Fire Hose Cabinet",
                    category |-> "Fire Hose", description |-> "GRP cabinet for a hose reel",
                    applications |-> "offshore", specifications |-> "{\"rating\":\"IP56\"}"]
      [] id = 2 -> [id |-> 2, product_code |-> "JB17", name |-> "Lifejacket Chest",
                    category |-> "Lifejacket", description |-> "holds 12 life jackets",
                    applications |-> "marine", specifications |-> "{\"material\":\"GRP\"}"]
      [] id = 3 -> [id |-> 3, product_code |-> "RS140", name |-> "Hose rack for JB17",
                    category |-> "Accessories", description |-> "steel rack with lock",
                    applications |-> "fire hose storage", specifications |-> "{}"]
      [] id = 4 -> [id |-> 4, product_code |-> "SOS603T", name |-> "Rescue Line Box",
                    category |-> "SOS", description |-> "emergency rescue line",
                    applications |-> "", specifications |-> "{\"rating\":\"IP56\"}"]
      [] id = 5 -> [id |-> 5, product_code |-> "jb02hr", name |-> "Hose Cabinet 05",
                    category |-> "Fire Hose", description |-> "GRP hose cabinet",
                    applications |-> "",
                    specifications |-> "{\"rating\":\"IP56\",\"door\":\"seal\"}"]
      [] OTHER  -> [id |-> id, product_code |-> "JB" \o TwoDigits(id + 20),
                    name |-> "Hose Cabinet " \o TwoDigits(id), category |-> "Fire Hose",
                    description |-> "GRP hose cabinet", applications |-> "",
                    specifications |-> "{\"rating\":\"IP56\",\"door\":\"seal\"}"]

\* the similarity (x100) the store's match_products function gives a record:
\* a cosine similarity, at most 1.0
MatchScore(id) == CASE id = 1 -> 82 [] id = 2 -> 64 [] id = 3 -> 91 [] id = 4 -> 95 [] OTHER -> 50 - (id % 7)

\* 1, 2, .., n
Upto(n) == [k \in 1..n |-> k]

Reverse(s) == [k \in 1..Len(s) |-> s[Len(s) + 1 - k]]

\* .limit(n): the first n rows
Limit(s, n) == SubSeq(s, 1, IF Len(s) < n THEN Len(s) ELSE n)

CatalogSize == 40

\* the text columns in lower case, as the store's ilike compares them
LowerColumns ==
    [id \in 1..CatalogSize |->
        [product_code |-> ToLowerCase(Product(id).product_code),
         name |-> ToLowerCase(Product(id).name),
         category |-> ToLowerCase(Product(id).category),
         description |-> ToLowerCase(Product(id).description),
         applications |-> ToLowerCase(Product(id).applications),
         specifications |-> ToLowerCase(Product(id).specifications)]]

\* column ilike '%lp%' on the row id, lp in lower case
Like(id, column, lp) == Includes(LowerColumns[id][column], lp)

\* column ilike '%p%' on the row id: case-insensitive containment
ILike(id, column, p) == Like(id, column, ToLowerCase(p))

RowOrders == {"asc", "desc"}

\* the rows of a store of size n whose id is in the set hits (the rows that
\* satisfy the query's filter), in the order the store yields them (a query
\* without ORDER BY: either direction)
Rows(n, hits, ord) ==
    LET hit == SelectSeq(Upto(n), LAMBDA id : id \in hits)
    IN  IF ord = "asc" THEN hit ELSE Reverse(hit)

\* .or(`product_code.ilike.%p%,name.ilike.%p%`)
CodeOrNameLike(id, p) == ILike(id, "product_code", p) \/ ILike(id, "name", p)

\* .or of name/category/description/applications ilike over every term
AnyTermLike4(id, terms) ==
    \E k \in 1..Len(terms) :
        \/ ILike(id, "name", terms[k]) \/ ILike(id, "category", terms[k])
        \/ ILike(id, "description", terms[k]) \/ ILike(id, "applications", terms[k])

\* a row as a search result: {...r, similarity, type}
Tag(id, sim, type) ==
    [id |-> id, product_code |-> Product(id).product_code, similarity |-> sim, type |-> type]

TagAll(rows, sim, type) == [k \in 1..Len(rows) |-> Tag(rows[k], sim, type)]

\* the rows of match_products, each with the store's own similarity
TagVector(rows) == [k \in 1..Len(rows) |-> Tag(rows[k], MatchScore(rows[k]), "vector")]

(***************************************************************************)
(* searchProducts: the pure parts                                          *)
(***************************************************************************)
KeywordSimilarity == 200

FuzzySimilarity == 150

\* /[A-Z]{2,3}[\d.]+[A-Z]*/gi
PartNumberPattern == Cat(<<Rep(Letter, 2, 3), Plus(Cls(Digits \o ".")), Star(Letter)>>)

\* [...question.matchAll(...)].map(m => m[0])
AllPartMatches(question) == MatchAll(PartNumberPattern, question)

synonymMap ==
    << <<"life jacket", "lifejacket">>, <<"life jackets", "lifejacket">>,
       <<"breathing apparatus", "ba">>, <<"scba", "ba">>, <<"self contained", "ba">>,
       <<"self-contained", "ba">>, <<"fire extinguisher", "extinguisher">>,
       <<"first aid", "first aid">>, <<"emergency", "sos">>, <<"hosepipe", "hose">>,
       <<"hosepipes", "hose">>, <<"fire hose", "hose">>, <<"wash down", "wash">> >>

StopWords ==
    {"tell", "about", "show", "what", "have", "find", "with", "does", "include", "list",
     "will", "hold", "the", "for", "and", "are", "can", "how", "you", "your", "any", "all",
     "get", "our", "its", "than", "from", "this", "that", "they", "them", "each", "also",
     "some", "most", "come", "give", "need", "want", "best", "more", "very", "much", "many",
     "just", "like", "look", "into", "been", "when", "only", "make", "made", "know", "good",
     "well", "work", "same", "take", "keep", "help", "sure", "used", "such", "other", "could",
     "would", "should", "which", "these", "those", "their", "there", "where", "still", "able",
     "info", "available", "options", "option"}

RECURSIVE SplitFrom(_, _, _, _)
\* the pieces of s between the separator matches ms[k..], from offset i on
SplitFrom(s, ms, k, i) ==
    IF k > Len(ms) THEN <<SubSeq(s, i + 1, Len(s))>>
    ELSE <<SubSeq(s, i + 1, ms[k][1])>> \o SplitFrom(s, ms, k + 1, ms[k][2])

\* normalizedQuery.split(/[\s.\-_]+/)
SplitWords(s) == SplitFrom(s, MatchAllFrom(Plus(Cls(" \t\n\r.-_")), s, 0), 1, 0)

\* [...new Set(seq)]: the first occurrence of each element, in order
Unique(seq) ==
    LET firsts == SelectSeq([k \in 1..Len(seq) |-> k],
                            LAMBDA k : \A j \in 1..(k - 1) : seq[j] # seq[k])
    IN  [n \in 1..Len(firsts) |-> seq[firsts[n]]]

FuzzyTerms(question) ==
    LET normalizedQuery == ToLowerCase(question)
        hits == SelectSeq(synonymMap, LAMBDA e : Includes(normalizedQuery, e[1]))
        synonyms == [k \in 1..Len(hits) |-> hits[k][2]]
        individualWords == SelectSeq(SplitWords(normalizedQuery),
                                     LAMBDA w : Len(w) > 2 /\ w \notin StopWords)
    IN  Unique(synonyms \o individualWords)

HasId(results, id) == \E k \in 1..Len(results) : results[k].id = id

Ids(results) == {results[k].id : k \in 1..Len(results)}

\* the merge step without the existingIds test
MergeProductNoDedup(results, product) == Append(results, product)

\* the merge step with the similarity comparison turned around
MergeProductKeepLowest(results, product) ==
    IF ~HasId(results, product.id) THEN Append(results, product)
    ELSE [k \in 1..Len(results) |->
            IF results[k].id = product.id /\ product.similarity < results[k].similarity
            THEN [results[k] EXCEPT !.similarity = product.similarity, !.type = product.type]
            ELSE results[k]]

\* one step of the merge loop: push an unseen id, else keep the highest similarity
MergeProduct(results, product) ==
    IF ~HasId(results, product.id) THEN Append(results, product)
    ELSE LET e == CHOOSE k \in 1..Len(results) :
                      /\ results[k].id = product.id
                      /\ \A j \in 1..(k - 1) : results[j].id # product.id
         IN  IF product.similarity > results[e].similarity
             THEN [results EXCEPT ![e].similarity = product.similarity, ![e].type = product.type]
             ELSE results

RECURSIVE MergeBatch(_, _)
\* for (const product of batch) ...: the first half of the batch is merged,
\* then the second half into what the first left
MergeBatch(results, batch) ==
    IF batch = <<>> THEN results
    ELSE IF Len(batch) = 1 THEN MergeProduct(results, batch[1])
    ELSE LET half == Len(batch) \div 2
             first == MergeBatch(results, SubSeq(batch, 1, half))
         IN  IF Len(first) = 0 THEN <<>>
             ELSE MergeBatch(first, SubSeq(batch, half + 1, Len(batch)))

RECURSIVE MergeAll(_, _)
\* for (const batch of allResults) for (const product of batch) ...
MergeAll(results, allResults) ==
    IF allResults = <<>> THEN results
    ELSE MergeAll(MergeBatch(results, Head(allResults)), Tail(allResults))

RECURSIVE InsertAscending(_, _)
InsertAscending(sorted, e) ==
    IF sorted = <<>> THEN <<e>>
    ELSE IF Head(sorted).similarity <= e.similarity
         THEN <<Head(sorted)>> \o InsertAscending(Tail(sorted), e)
         ELSE <<e>> \o sorted

RECURSIVE SortAscending(_)
\* the sort with the comparator's operands swapped: ascending
SortAscending(results) ==
    IF results = <<>> THEN <<>>
    ELSE InsertAscending(SortAscending(SubSeq(results, 1, Len(results) - 1)),
                         results[Len(results)])

RECURSIVE SortTiers(_, _)
\* the entries of results by descending similarity, those of one similarity
\* in the order they had
SortTiers(results, sims) ==
    IF sims = {} THEN <<>>
    ELSE SelectSeq(results, LAMBDA e : e.similarity = SetMax(sims))
             \o SortTiers(results, sims \ {SetMax(sims)})

\* results.sort((a, b) => (b.similarity || 0) - (a.similarity || 0)): stable
SortBySimilarity(results) ==
    SortTiers(results, {results[k].similarity : k \in 1..Len(results)})

\* results.slice(0, n)
Slice(results, n) == Limit(results, n)

(***************************************************************************)
(* filterDatasheetsByCitations                                             *)
(***************************************************************************)
AlNum == Cls(LowerAlpha \o Digits)

\* [A-Z]{2,3}[\d.]+[A-Za-z\d]*  (flag i)
BoldCode == Cat(<<Rep(Letter, 2, 3), Plus(Cls(Digits \o ".")), Star(AlNum)>>)

\* /\*\*([A-Z]{2,3}[\d.]+[A-Za-z\d]*)\*\*/gi
shortBoldPattern == Cat(<<Lit("**"), BoldCode, Lit("**")>>)

\* /\*\*([A-Z]{2,3}[\d.]+[A-Za-z\d]*)\s+[^*]+\*\*/gi
longBoldPattern == Cat(<<Lit("**"), BoldCode, Plus(Ws), Plus(NotCls("*")), Lit("**")>>)

\* /\b(JB\d{2,3}[A-Z]{0,4}|RS\d{2,4}[A-Z]{0,4}|SOS\d{2,4}[A-Z]{0,4}|HS\d{2,4}[A-Z]{0,4})\b/gi
unboldedPattern ==
    Cat(<<WB,
          Alt(<<Cat(<<Lit("jb"), Rep(Digit, 2, 3), Rep(Letter, 0, 4)>>),
                Cat(<<Lit("rs"), Rep(Digit, 2, 4), Rep(Letter, 0, 4)>>),
                Cat(<<Lit("sos"), Rep(Digit, 2, 4), Rep(Letter, 0, 4)>>),
                Cat(<<Lit("hs"), Rep(Digit, 2, 4), Rep(Letter, 0, 4)>>)>>),
          WB>>)

SeqToSet(seq) == {seq[k] : k \in 1..Len(seq)}

\* group 1 of a short bold match: the text between the asterisks
ShortBoldGroup(m) == SubSeq(m, 3, Len(m) - 2)

\* group 1 of a long bold match: the code, which ends at the first white space
LongBoldGroup(m) ==
    LET body == SubSeq(m, 3, Len(m))
        stop == SetMin({k \in 1..Len(body) : InStr(SubSeq(body, k, k), " \t\n\r")})
    IN  SubSeq(body, 1, stop - 1)

\* citedProductCodes without the loop over the unbolded pattern
CitedProductCodesNoBare(responseText) ==
    {ToLowerCase(ShortBoldGroup(m)) : m \in SeqToSet(MatchAll(shortBoldPattern, responseText))}
        \cup {ToLowerCase(LongBoldGroup(m)) : m \in SeqToSet(MatchAll(longBoldPattern, responseText))}

\* citedProductCodes after the three exec loops
CitedProductCodes(responseText) ==
    {ToLowerCase(ShortBoldGroup(m)) : m \in SeqToSet(MatchAll(shortBoldPattern, responseText))}
        \cup {ToLowerCase(LongBoldGroup(m)) : m \in SeqToSet(MatchAll(longBoldPattern, responseText))}
        \cup {ToLowerCase(m) : m \in SeqToSet(MatchAll(unboldedPattern, responseText))}

\* (ds.productCode || ds.filename).toLowerCase()
DsCode(ds) == ToLowerCase(IF ds.productCode # "" THEN ds.productCode ELSE ds.filename)

\* the match with the length tests left out
SidebarMatchNoLength(dsCode, cited) ==
    \/ dsCode = cited
    \/ StartsWith(dsCode, cited)
    \/ StartsWith(cited, dsCode)

\* the match with includes in place of startsWith
SidebarMatchIncludes(dsCode, cited) ==
    \/ dsCode = cited
    \/ Includes(dsCode, cited) /\ Len(cited) >= 4
    \/ Includes(cited, dsCode) /\ Len(dsCode) >= 4

\* the body of the loop over citedProductCodes: exact, prefix, reverse prefix
SidebarMatch(dsCode, cited) ==
    \/ dsCode = cited
    \/ StartsWith(dsCode, cited) /\ Len(cited) >= 4
    \/ StartsWith(cited, dsCode) /\ Len(dsCode) >= 4

FilterDatasheetsByCitations(responseText, allDatasheets) ==
    IF responseText = "" \/ allDatasheets = <<>> THEN <<>>
    ELSE LET cited == CitedProductCodes(responseText)
         IN  SelectSeq(allDatasheets,
                       LAMBDA ds : \E c \in cited : SidebarMatch(DsCode(ds), c))

(***************************************************************************)
(* POST /api/chat/stream: the pure parts                                   *)
(***************************************************************************)
SpecFollowUpSimilarity == 200

SpecFilterSimilarity == 190

CategorySimilarity == 185

FeatureSimilarity == 185

HistorySimilarity == 180

PrimaryMatchCount == 15

SpecFilterCap == 25

CategoryCap == 30

FeatureCap == 30

ScanLimit == 200

CategoryLimit == 50

CodeLookupLimit == 3

MaxSpecFollowUpCodes == 10

MaxHistoryLookups == 3

Words(ws) == Alt([k \in 1..Len(ws) |-> Lit(ws[k])])

\* /\b([A-Z]{2,3}[\d.]+[A-Z\d]*)\b/gi
codeRegex == Cat(<<WB, Rep(Letter, 2, 3), Plus(Cls(Digits \o ".")), Star(AlNum), WB>>)

RECURSIVE Flatten(_)
Flatten(seqs) == IF seqs = <<>> THEN <<>> ELSE Head(seqs) \o Flatten(Tail(seqs))

UpperAll(seq) == [k \in 1..Len(seq) |-> ToUpperCase(seq[k])]

\* the upper-cased codes of every message, first mention first, no repeats
ExtractProductCodesFromHistory(hist) ==
    Unique(UpperAll(Flatten([k \in 1..Len(hist) |-> MatchAll(codeRegex, hist[k].content)])))

\* /\b(these|those|...|between them)\b/i
referencePattern ==
    Cat(<<WB, Words(<<"these", "those", "they", "them", "their", "its", "both", "same",
                      "above", "mentioned", "compared", "compare", "versus", "vs",
                      "which one", "between them">>), WB>>)

\* /\b(do they|are they|...|tell me more)\b/i
questionPattern ==
    Cat(<<WB, Words(<<"do they", "are they", "can they", "does it", "is it", "can it",
                      "how do", "how does", "what about", "tell me more">>), WB>>)

\* /[A-Z]{2,3}[\d.]+/i
codeStartPattern == Cat(<<Rep(Letter, 2, 3), Plus(Cls(Digits \o "."))>>)

\* /\b(cabinet|hose|fire|life|jacket|extinguisher|storage|breathing)\b/i
productWordPattern ==
    Cat(<<WB, Words(<<"cabinet", "hose", "fire", "life", "jacket", "extinguisher",
                      "storage", "breathing">>), WB>>)

IsFollowUp(q, hist) ==
    /\ Len(hist) >= 2
    /\ \/ Test(referencePattern, q)
       \/ Test(questionPattern, q)
       \/ Len(q) < 30 /\ ~Test(codeStartPattern, q) /\ ~Test(productWordPattern, q)

\* /\b(ip\s*rat|dimen|...|accessories)/i
needsSpecDataPattern ==
    Cat(<<WB, Alt(<<Cat(<<Lit("ip"), Star(Ws), Lit("rat")>>),
                    Cat(<<Lit("colo"), Opt(Lit("u")), Lit("r")>>),
                    Cat(<<Lit("option"), Opt(Lit("s"))>>),
                    Words(<<"dimen", "material", "weight", "height", "width", "depth",
                            "certif", "approval", "rating", "specs", "specification",
                            "construction", "locking", "insulation", "tell me more",
                            "more about", "more info", "details", "describe", "full",
                            "everything about", "what is", "what are", "features",
                            "capacity", "extras", "accessories">>)>>)>>)

NeedsSpecData(q) == Test(needsSpecDataPattern, q)

\* /[A-Z]{2,3}[\d.]+[A-Z\d]*/i
QueryContainsProductCode(q) == Test(Cat(<<codeStartPattern, Star(AlNum)>>), q)

\* /how many|total|count|list.*categor|what.*categor|what.*types|overview|
\*  what do you (have|know)|what.*available/i, and no product code
metaPattern ==
    Alt(<<Words(<<"how many", "total", "count", "overview">>),
          Cat(<<Lit("list"), Star(AnyChar), Lit("categor")>>),
          Cat(<<Lit("what"), Star(AnyChar), Lit("categor")>>),
          Cat(<<Lit("what"), Star(AnyChar), Lit("types")>>),
          Cat(<<Lit("what do you "), Words(<<"have", "know">>)>>),
          Cat(<<Lit("what"), Star(AnyChar), Lit("available")>>)>>)

IsMetaQuery(q) == Test(metaPattern, q) /\ ~Test(codeStartPattern, q)

\* the branch the handler takes
PathOf(q, hist) ==
    IF IsFollowUp(q, hist) /\ ~NeedsSpecData(q) /\ ~QueryContainsProductCode(q) THEN "fast"
    ELSE IF /\ IsFollowUp(q, hist)
            /\ NeedsSpecData(q) \/ QueryContainsProductCode(q)
            /\ ExtractProductCodesFromHistory(hist) # <<>>
         THEN "specFollowUp"
         ELSE "standard"

\* [...new Set([...queryCodeMatches, ...historyProductCodes])]
AllCodes(q, hist) ==
    Unique(UpperAll(MatchAll(codeRegex, q)) \o ExtractProductCodesFromHistory(hist))

\* query.toLowerCase().includes(...) of expandQuery
IsCatalogQuestion(q) ==
    LET lq == ToLowerCase(q)
    IN  \/ Includes(lq, "category") \/ Includes(lq, "list of")
        \/ Includes(lq, "what classes") \/ Includes(lq, "what sections")

\* what the expansion model may answer for a query
AiExpansions == {"fire hose cabinet storage"}

ExpandMinLength == 4

ExpandBypassNoSeparator(q) == Test(PartNumberPattern, q) \/ IsCatalogQuestion(q)

\* query.match(/[A-Z]{2,3}[\d.]+[A-Z]*/i) || query.includes('_') ||
\* query.includes('-') || isMetaQuery: expandQuery returns the query at once
ExpandBypass(q) ==
    \/ Test(PartNumberPattern, q) \/ Includes(q, "_") \/ Includes(q, "-")
    \/ IsCatalogQuestion(q)

\* query.length > 4 || query.includes(' ')
Expandable(q) == Len(q) > ExpandMinLength \/ Includes(q, " ")

\* the values expandQuery can return: the query itself (a bypass, no AI
\* client, a failure or a timeout of the call) or the model's answer
ExpandQuery(q) ==
    IF ExpandBypass(q) THEN {q}
    ELSE IF Expandable(q) THEN {q} \cup AiExpansions ELSE {q}

RECURSIVE TrimStart(_)
TrimStart(s) ==
    IF s # "" /\ InStr(SubSeq(s, 1, 1), " \t\n\r") THEN TrimStart(SubSeq(s, 2, Len(s))) ELSE s

RECURSIVE TrimEnd(_)
TrimEnd(s) ==
    IF s # "" /\ InStr(SubSeq(s, Len(s), Len(s)), " \t\n\r")
    THEN TrimEnd(SubSeq(s, 1, Len(s) - 1)) ELSE s

\* String.prototype.trim
Trim(s) == TrimEnd(TrimStart(s))

\* .replace(/^"|"$/g, '')
StripQuotes(s) ==
    LET s1 == IF StartsWith(s, "\"") THEN SubSeq(s, 2, Len(s)) ELSE s
    IN  IF s1 # "" /\ SubSeq(s1, Len(s1), Len(s1)) = "\"" THEN SubSeq(s1, 1, Len(s1) - 1) ELSE s1

\* a completion call: not made, in flight, fulfilled with a result, rejected,
\* or cut off by the timer it is raced against.  hasResponse tells whether
\* the result carries the response object whose text() the helpers read.
NoGen == [st |-> "none", hasResponse |-> FALSE, text |-> ""]

GenPending == [st |-> "pending", hasResponse |-> FALSE, text |-> ""]

GenRejected == [st |-> "error", hasResponse |-> FALSE, text |-> ""]

GenTimeout == [st |-> "timeout", hasResponse |-> FALSE, text |-> ""]

GenResult(has, text) == [st |-> "ok", hasResponse |-> has, text |-> text]

\* the try block of expandQuery once the race has settled with c: a
\* rejection of the race and a read of result.response.text() on a result
\* without response both throw
ExpandTry(c) ==
    IF c.st = "ok" /\ c.hasResponse
    THEN [threw |-> FALSE, value |-> StripQuotes(Trim(c.text))]
    ELSE [threw |-> TRUE, value |-> ""]

FallbackRethrow(t, fallback) ==
    IF t.threw THEN [raised |-> TRUE, value |-> fallback] ELSE [raised |-> FALSE, value |-> t.value]

\* catch (err) { return query } of expandQuery, return [query] of decomposeEnquiry
Fallback(t, fallback) ==
    IF t.threw THEN [raised |-> FALSE, value |-> fallback] ELSE [raised |-> FALSE, value |-> t.value]

MinDecomposeLength == 150

MinPhraseLength == 5

\* text.split('\n')
Lines(text) == SplitFrom(text, MatchAllFrom(Lit("\n"), text, 0), 1, 0)

PhrasesOfUnfiltered(text) == LET ls == Lines(text) IN [k \in 1..Len(ls) |-> Trim(ls[k])]

\* .split('\n').map(p => p.trim()).filter(p => p.length > 5)
PhrasesOf(text) ==
    LET ls == Lines(text)
    IN  SelectSeq([k \in 1..Len(ls) |-> Trim(ls[k])], LAMBDA ph : Len(ph) > MinPhraseLength)

\* the try block of decomposeEnquiry once the race has settled with c
DecomposeTry(q, c) ==
    IF c.st = "ok" /\ c.hasResponse
    THEN [threw |-> FALSE,
          value |-> IF Len(PhrasesOf(c.text)) > 0 THEN PhrasesOf(c.text) ELSE <<q>>]
    ELSE [threw |-> TRUE, value |-> <<>>]

\* a\s*b
Sp(a, b) == Cat(<<Lit(a), Star(Ws), Lit(b)>>)

\* /\b(ip\s*\d{2}|ip\s*\d{1}x|stainless\s*steel|grp|composite|galvani[sz]ed|
\*  aluminium|mild\s*steel)\b/i
specValuePattern ==
    Cat(<<WB,
          Alt(<<Cat(<<Lit("ip"), Star(Ws), Rep(Digit, 2, 2)>>),
                Cat(<<Lit("ip"), Star(Ws), Rep(Digit, 1, 1), Lit("x")>>),
                Sp("stainless", "steel"), Lit("grp"), Lit("composite"),
                Cat(<<Lit("galvani"), Cls("sz"), Lit("ed")>>),
                Lit("aluminium"), Sp("mild", "steel")>>),
          WB>>)

RECURSIVE RemoveSpaces(_)
\* .replace(/\s+/g, '')
RemoveSpaces(s) ==
    IF Len(s) <= 1 THEN (IF InStr(s, " \t\n\r") THEN "" ELSE s)
    ELSE RemoveSpaces(SubSeq(s, 1, Len(s) \div 2))
             \o RemoveSpaces(SubSeq(s, Len(s) \div 2 + 1, Len(s)))

\* <<>> when lowerQuery has no spec value, else <<specValue>>
SpecValueOf(q) ==
    LET m == MatchFirst(specValuePattern, ToLowerCase(q))
    IN  IF m = <<>> THEN <<>> ELSE <<RemoveSpaces(m[1])>>

categoryPatterns ==
    << [pattern |-> Alt(<<Sp("life", "jacket"), Lit("lifejacket")>>),
        terms |-> <<"lifejacket", "life jacket", "automatic life">>],
       [pattern |-> Alt(<<Sp("fire", "hose"), Lit("firehose"), Sp("hose", "pipe"),
                          Lit("hosepipe"), Cat(<<WB, Lit("hose")>>)>>),
        terms |-> <<"fire hose", "hose reel", "hose">>],
       [pattern |-> Sp("fire", "extinguisher"), terms |-> <<"extinguisher">>],
       [pattern |-> Alt(<<Sp("breathing", "apparatus"), Cat(<<WB, Lit("ba"), WB>>),
                          Lit("scba")>>),
        terms |-> <<"breathing apparatus", "BA">>],
       [pattern |-> Alt(<<Lit("lifebuoy"), Sp("life", "buoy"), Sp("life", "ring")>>),
        terms |-> <<"lifebuoy", "life buoy">>],
       [pattern |-> Sp("immersion", "suit"), terms |-> <<"immersion suit">>],
       [pattern |-> Sp("wash", "down"), terms |-> <<"wash down", "washdown">>],
       [pattern |-> Sp("first", "aid"), terms |-> <<"first aid">>],
       [pattern |-> Alt(<<Lit("electrical"), Lit("ppe")>>), terms |-> <<"electrical", "PPE">>],
       [pattern |-> Alt(<<Sp("general", "purpose"), Lit("utility"),
                          Cat(<<Lit("multi"), Opt(AnyChar), Lit("purpose")>>)>>),
        terms |-> <<"general purpose", "utility">>],
       [pattern |-> Lit("stretcher"), terms |-> <<"stretcher">>],
       [pattern |-> Alt(<<Cat(<<WB, Lit("sos"), WB>>), Sp("rescue", "line"),
                          Sp("rescue", "equipment")>>),
        terms |-> <<"SOS", "rescue">>],
       [pattern |-> Sp("descent", "device"), terms |-> <<"descent">>],
       [pattern |-> Alt(<<Cat(<<WB, Lit("ev"), WB>>), Sp("electric", "vehicle"),
                          Sp("fire", "blanket")>>),
        terms |-> <<"EV", "fire blanket">>],
       [pattern |-> Alt(<<Sp("life", "raft"), Lit("liferaft")>>),
        terms |-> <<"liferaft", "life raft">>],
       [pattern |-> Lit("foam"), terms |-> <<"foam">>] >>

featurePatterns ==
    << [pattern |-> Words(<<"colour", "color", "paint", "ral", "finish">>),
        terms |-> <<"colour", "color", "ral", "paint", "finish">>],
       [pattern |-> Words(<<"heater", "heated", "heating">>),
        terms |-> <<"heater", "heated", "heating">>],
       [pattern |-> Lit("insulat"), terms |-> <<"insulation", "insulated">>],
       [pattern |-> Words(<<"lock", "locking">>), terms |-> <<"lock", "locking">>],
       [pattern |-> Words(<<"optional", "extras", "option", "upgrade">>),
        terms |-> <<"optional", "extras", "option">>],
       [pattern |-> Alt(<<Lit("mount"), Cat(<<Lit("wall"), Opt(AnyChar), Lit("mount")>>),
                          Lit("bracket")>>),
        terms |-> <<"mount", "mounting", "bracket">>],
       [pattern |-> Words(<<"window", "glazed", "transparent">>),
        terms |-> <<"window", "glazed">>],
       [pattern |-> Words(<<"shelf", "shelves", "rack">>),
        terms |-> <<"shelf", "shelves", "rack">>],
       [pattern |-> Words(<<"arctic", "cold", "frost">>),
        terms |-> <<"arctic", "cold", "frost">>],
       [pattern |-> Words(<<"door", "hinge", "seal">>), terms |-> <<"door", "hinge", "seal">>] >>

\* patterns.find(p => p.pattern.test(lowerQuery)): the terms of the first
\* pattern that matches, <<>> when none does
FindTerms(patterns, q) ==
    LET hit == {k \in 1..Len(patterns) : Test(patterns[k].pattern, ToLowerCase(q))}
    IN  IF hit = {} THEN <<>> ELSE patterns[SetMin(hit)].terms

\* the spec-value test on one row; specValue comes from lowerQuery, so
\* specValue.toLowerCase() is specValue
HasSpecValue(id, specValue) ==
    \/ Like(id, "specifications", specValue)
    \/ Like(id, "description", specValue)
    \/ Like(id, "applications", specValue)

LowerAll(seq) == [k \in 1..Len(seq) |-> ToLowerCase(seq[k])]

\* the .or(...) filter of the category query: name, category or description
\* ilike any term (lterms: the terms in lower case)
AnyCategoryTermLike(id, lterms) ==
    \E k \in 1..Len(lterms) :
        \/ Like(id, "name", lterms[k]) \/ Like(id, "category", lterms[k])
        \/ Like(id, "description", lterms[k])

\* specStr + ' ' + descStr + ' ' + appsStr
LowerCombined ==
    [id \in 1..CatalogSize |->
        LowerColumns[id].specifications \o " " \o LowerColumns[id].description
            \o " " \o LowerColumns[id].applications]

\* matchedFeature.terms.some(term => combined.includes(term.toLowerCase()))
\* (lterms: the terms in lower case)
HasFeature(id, lterms) ==
    \E k \in 1..Len(lterms) : Includes(LowerCombined[id], lterms[k])

\* the pieces of a code between its dots and dashes: code.replace(/[.\-]/g, '%')
\* turns them into the literal runs of an ilike pattern
CodeRuns(code) == SplitFrom(code, MatchAllFrom(Cls(".-"), code, 0), 1, 0)

RECURSIVE LikeRuns(_, _, _)
\* text ilike %run1%run2%..%: the runs occur in text in this order
LikeRuns(text, runs, k) ==
    IF k > Len(runs) THEN TRUE
    ELSE LET at == {i \in 0..(Len(text) - Len(runs[k])) :
                        SubSeq(text, i + 1, i + Len(runs[k])) = runs[k]}
         IN  at # {} /\ LikeRuns(SubSeq(text, SetMin(at) + Len(runs[k]) + 1, Len(text)),
                                 runs, k + 1)

\* .or(`product_code.ilike.%${baseCode}%,name.ilike.%${baseCode}%`), runs
\* being the literal runs of baseCode in lower case
BaseCodeLike(id, runs) ==
    \/ LikeRuns(LowerColumns[id].product_code, runs, 1)
    \/ LikeRuns(LowerColumns[id].name, runs, 1)

\* the append of every row, seen or not
AppendNewNoSeen(results, rows, sim, type) == results \o TagAll(rows, sim, type)

\* for (const product of rows) if (!seenIds.has(product.id)) { push; add }:
\* a row is pushed unless its id is in results or earlier in rows
AppendNew(results, rows, sim, type) ==
    LET unseen == SelectSeq(Upto(Len(rows)),
                            LAMBDA k : /\ ~HasId(results, rows[k])
                                       /\ \A j \in 1..(k - 1) : rows[j] # rows[k])
    IN  results \o [n \in 1..Len(unseen) |-> Tag(rows[unseen[n]], sim, type)]

\* the lookup by name only
CodeLookupNameOnly(n, code, ord) ==
    LET lc == ToLowerCase(code)
    IN  Limit(Rows(n, {id \in 1..n : Like(id, "name", lc)}, ord), CodeLookupLimit)

\* one lookup of the history supplement: code or name ilike %code%, .limit(3)
CodeLookup(n, code, ord) ==
    LET lc == ToLowerCase(code)
    IN  Limit(Rows(n, {id \in 1..n : Like(id, "product_code", lc) \/ Like(id, "name", lc)},
                   ord), CodeLookupLimit)

\* one lookup of the spec follow-up path
BaseCodeLookup(n, code, ord) ==
    LET runs == CodeRuns(ToLowerCase(code))
    IN  Limit(Rows(n, {id \in 1..n : BaseCodeLike(id, runs)}, ord), CodeLookupLimit)

\* historyProductCodes.filter(code => !existingCodes.has(code.toLowerCase()))
MissingCodes(results, codes) ==
    LET existingCodes == {LowerColumns[results[k].id].product_code : k \in 1..Len(results)}
    IN  SelectSeq(codes, LAMBDA c : ToLowerCase(c) \notin existingCodes)

(***************************************************************************)
(* POST /api/chat/stream: the response stream, the pure parts              *)
(***************************************************************************)
RECURSIVE JoinAll(_)
\* pieces.join('')
JoinAll(pieces) == IF pieces = <<>> THEN "" ELSE pieces[1] \o JoinAll(SubSeq(pieces, 2, Len(pieces)))

\* text.replace(re, '') with the flags g and i
RemoveMatches(re, text) == JoinAll(SplitFrom(text, MatchAllFrom(re, ToLowerCase(text), 0), 1, 0))

\* /\(Source:\s*[^)]+\.pdf\)/gi, /Source:\s*[^)]+\.pdf/gi, /\[Source:\s*[^\]]+\.pdf\]/gi
parenSourcePattern == Cat(<<Lit("(source:"), Star(Ws), Plus(NotCls(")")), Lit(".pdf)")>>)

bareSourcePattern == Cat(<<Lit("source:"), Star(Ws), Plus(NotCls(")")), Lit(".pdf")>>)

bracketSourcePattern == Cat(<<Lit("[source:"), Star(Ws), Plus(NotCls("]")), Lit(".pdf]")>>)

StripCitations(text) ==
    IF text = "" THEN text
    ELSE Trim(RemoveMatches(bracketSourcePattern,
                 RemoveMatches(bareSourcePattern, RemoveMatches(parenSourcePattern, text))))

CutShortMarker == "\n\n[Response was cut short. Please try again.]"

\* a reference as extractDatasheetReferences builds it
Datasheet(code) == [filename |-> code, productCode |-> code]

\* one reference per product code, the codes compared as they are written
ExtractDatasheetReferencesExactCase(results) ==
    LET code == [k \in 1..Len(results) |-> results[k].product_code]
        kept == SelectSeq([k \in 1..Len(results) |-> k],
                          LAMBDA k : code[k] # "" /\ \A j \in 1..(k - 1) : code[j] # code[k])
    IN  [n \in 1..Len(kept) |-> Datasheet(code[kept[n]])]

\* one reference per product code, compared as code.toLowerCase().trim(); the
\* first result with a code wins, results without a code are skipped
ExtractDatasheetReferences(results) ==
    LET code == [k \in 1..Len(results) |-> results[k].product_code]
        key == [k \in 1..Len(results) |-> Trim(ToLowerCase(code[k]))]
        kept == SelectSeq([k \in 1..Len(results) |-> k],
                          LAMBDA k : /\ code[k] # ""
                                     /\ \A j \in 1..(k - 1) : code[j] = "" \/ key[j] # key[k])
    IN  [n \in 1..Len(kept) |-> Datasheet(code[kept[n]])]

\* an event of the response stream, as the data object the client parses
Event(type, text, datasheets) == [type |-> type, text |-> text, datasheets |-> datasheets]

Status(message) == Event("status", message, <<>>)

ErrorEvent(error) == Event("error", error, <<>>)

RECURSIVE ClientRead(_)
\* getSelectionResponseStream over the events received: a chunk replaces the
\* text, done replaces it unless its text is empty, error throws unless its
\* message is empty or contains 'JSON' 
ClientRead(evs) ==
    IF evs = <<>> THEN [text |-> "", failed |-> FALSE]
    ELSE LET before == ClientRead(SubSeq(evs, 1, Len(evs) - 1))
             ev == evs[Len(evs)]
         IN  IF before.failed THEN before
             ELSE CASE ev.type = "chunk" -> [text |-> ev.text, failed |-> FALSE]
                    [] ev.type = "done" ->
                         [text |-> IF ev.text # "" THEN ev.text ELSE before.text, failed |-> FALSE]
                    [] ev.type = "error" ->
                         [text |-> before.text,
                          failed |-> ev.text # "" /\ ~Includes(ev.text, "JSON")]
                    [] OTHER -> before

(***************************************************************************)
(* State                                                                   *)
(***************************************************************************)
VARIABLES
    storeSize,      \* the store holds Product(1) .. Product(storeSize)
    supabaseOk,     \* getSupabase() returns a client
    question,       \* searchProducts: its arguments
    matchCount,
    sp_pc,          \* searchProducts: "init", "awaiting" (Promise.all), "returned"
    partNumbers,    \* the part numbers matched in the question
    fuzzyTerms,     \* the terms of the fuzzy query
    kw,             \* one store query per part number of the question
    fz,             \* the fuzzy store query
    emb,            \* the embedding call
    rpc,            \* the match_products call
    sp_result,      \* the list searchProducts returned
    responseText,   \* filterDatasheetsByCitations: its arguments
    allDatasheets,
    f_pc,           \* "init", then "returned"
    filtered,       \* the list filterDatasheetsByCitations returned
    query,          \* chat stream handler: the request body
    history,
    h_pc,           \* the handler's position
    path,           \* the branch taken: "fast" (isFollowUpPath), "specFollowUp", "standard"
    searchResults,  \* the request's result list
    primaryResults, \* the list searchProducts returned to the handler
    passes,         \* how the category pass and the history carry-over ended
    failedLookups   \* the codes with a lookup by code that failed or was cut off

searchVars == <<storeSize, supabaseOk, question, matchCount, sp_pc, partNumbers, fuzzyTerms, kw, fz, emb, rpc, sp_result>>

filterVars == <<responseText, allDatasheets, f_pc, filtered>>

chatVars == <<query, history, h_pc, path, searchResults, primaryResults, passes, failedLookups>>

VARIABLES
    fn,             \* the helper called: "expandQuery" or "decomposeEnquiry"
    arg,            \* its query
    argHistory,     \* its history (expandQuery)
    fn_pc,          \* "called", "awaiting" (Promise.race), "returned", "raised"
    aiReady,        \* getAI() returns a client
    gen,            \* the helper's completion call
    genCalls,       \* the number of completion calls issued
    expanded,       \* what expandQuery returned
    phrases         \* what decomposeEnquiry returned

helperVars == <<fn, arg, argHistory, fn_pc, aiReady, gen, genCalls, expanded, phrases>>

VARIABLES
    events,         \* the data events written to the response, in order
    statusCode,     \* the status line committed with the headers (0: none yet)
    lateWrites,     \* the kinds of write attempted after res.end() (they reach no one)
    closed,         \* the client has closed the connection
    ended,          \* res.end() has been called
    requestDone,    \* the handler's flag, set by cleanup()
    globalTimer,    \* the 60 s timer: "none", "armed", "fired", "cleared"
    referencedDatasheets, \* extractDatasheetReferences(searchResults)
    stream,         \* the completion stream: "none", "pending", "open", then how it ended
    fullText,       \* the text accumulated from the chunks
    chunkCount      \* the chunks taken from the stream

VARIABLES
    kbStatsCache,   \* the cached statistics (set: FALSE while null)
    kbStatsLastUpdated, \* the time of the refresh that filled the cache
    now,            \* Date.now()
    callers         \* the calls of getKnowledgeBaseStats: position, time of call, result

statsVars == <<kbStatsCache, kbStatsLastUpdated, now, callers>>

VARIABLES
    searchTargets,  \* the phrases decomposeEnquiry returned for a long enquiry
    resultsArrays   \* the lists the searchProducts calls of the phrases returned, in phrase order

enquiryVars == <<searchTargets, resultsArrays>>

VARIABLES
    body,           \* the client: the text of the response body, as the server wrote it
    received,       \* the number of its characters the reads have delivered
    lineBuffer,     \* the unfinished line kept between reads
    client,         \* fullText, referencedDatasheets, the onChunk calls made, an error thrown
    c_pc            \* "reading", "resolved", "rejected"

clientVars == <<body, received, lineBuffer, client, c_pc>>

VARIABLES
    sessions,        \* the chat UI: the list of chat sessions, newest first
    activeSessionId, \* the id of the session shown
    uiClock          \* Date.now() in the browser (0: no UI)

sessionVars == <<sessions, activeSessionId, uiClock>>

streamVars == <<events, statusCode, lateWrites, closed, ended, requestDone, globalTimer, referencedDatasheets,
                stream, fullText, chunkCount>>

\* the variables of the components outside searchProducts, the citation
\* filter, the handler, the helpers and the statistics
otherVars == <<enquiryVars, clientVars, sessionVars>>

nonEnquiryVars == <<filterVars, helperVars, streamVars, statsVars, clientVars, sessionVars>>

nonClientVars == <<searchVars, filterVars, chatVars, helperVars, streamVars, statsVars, enquiryVars,
                   sessionVars>>

nonSessionVars == <<searchVars, filterVars, chatVars, helperVars, streamVars, statsVars, enquiryVars,
                    clientVars>>

vars == <<searchVars, filterVars, chatVars, helperVars, streamVars, statsVars, otherVars>>

\* what the actions of one component leave alone
nonSearchVars == <<filterVars, chatVars, helperVars, streamVars, statsVars, otherVars>>

nonFilterVars == <<searchVars, chatVars, helperVars, streamVars, statsVars, otherVars>>

\* (the handler's actions name the search variables themselves)
nonChatVars == <<filterVars, helperVars, streamVars, statsVars, otherVars>>

\* what no action of the handler changes
nonHandlerVars == <<filterVars, helperVars, statsVars, otherVars>>

nonHelperVars == <<searchVars, filterVars, chatVars, streamVars, statsVars, otherVars>>

nonStatsVars == <<filterVars, chatVars, helperVars, streamVars, otherVars>>

\* searchProducts has not been called
IdleSearchCall ==
    /\ question = "" /\ matchCount = 0
    /\ sp_pc = "idle" /\ partNumbers = <<>> /\ fuzzyTerms = <<>>
    /\ kw = <<>> /\ fz = [st |-> "none", rows |-> <<>>] /\ emb = "none"
    /\ rpc = [st |-> "none", rows |-> <<>>] /\ sp_result = <<>>

\* searchProducts is not running
IdleSearch == storeSize = 0 /\ supabaseOk = TRUE /\ IdleSearchCall

NoPasses == [category |-> "none", history |-> "none"]

\* no request is being handled
IdleChat ==
    /\ query = "" /\ history = <<>> /\ h_pc = "idle" /\ path = "none"
    /\ searchResults = <<>> /\ primaryResults = <<>> /\ passes = NoPasses /\ failedLookups = {}

\* let kbStatsCache = null; let kbStatsLastUpdated = 0
NoStats == [set |-> FALSE, totalProducts |-> 0]

\* getKnowledgeBaseStats has not been called
IdleStats == kbStatsCache = NoStats /\ kbStatsLastUpdated = 0 /\ now = 0 /\ callers = <<>>

\* no response has been started
IdleStream ==
    /\ events = <<>> /\ statusCode = 0 /\ ended = FALSE /\ requestDone = FALSE
    /\ lateWrites = {} /\ closed = FALSE
    /\ globalTimer = "none" /\ referencedDatasheets = <<>>
    /\ stream = "none" /\ fullText = "" /\ chunkCount = 0

\* no long enquiry is being searched
IdleEnquiry == searchTargets = <<>> /\ resultsArrays = <<>>

\* what the client holds before its first read
NewClient == [fullText |-> "", referencedDatasheets |-> <<>>, calls |-> <<>>,
              thrown |-> FALSE, message |-> ""]

\* no response is being read
IdleClient ==
    /\ body = "" /\ received = 0 /\ lineBuffer = "" /\ client = NewClient /\ c_pc = "idle"

\* no chat UI
IdleSession == sessions = <<>> /\ activeSessionId = "" /\ uiClock = 0

IdleOthers == IdleEnquiry /\ IdleClient /\ IdleSession

\* no helper is running
IdleHelper ==
    /\ fn = "none" /\ arg = "" /\ argHistory = <<>> /\ fn_pc = "idle" /\ aiReady = TRUE
    /\ gen = NoGen /\ genCalls = 0 /\ expanded = "" /\ phrases = <<>>

\* filterDatasheetsByCitations is not running
IdleFilter == responseText = "" /\ allDatasheets = <<>> /\ f_pc = "idle" /\ filtered = <<>>

(***************************************************************************)
(* searchProducts as a process.  An external call is "pending" until it    *)
(* settles; "hung" marks a call that will never settle.  A call raced      *)
(* against a timer can be cut off by it while pending or hung.             *)
(***************************************************************************)
MaxStore == 4

MaxMatchCount == 3

Questions ==
    {"JB02HR fire hose", "compare JB17 and RS140", "JB17 or SOS603T", "fire hose", "it"}

NoCall == [st |-> "none", rows |-> <<>>]

Pending == [st |-> "pending", rows |-> <<>>]

InFlight(c) == c.st \in {"pending", "hung"}

InitSearch ==
    /\ storeSize \in 0..MaxStore
    /\ supabaseOk \in BOOLEAN
    /\ question \in Questions
    /\ matchCount \in 1..MaxMatchCount
    /\ sp_pc = "init"
    /\ partNumbers = <<>>
    /\ fuzzyTerms = <<>>
    /\ kw = <<>>
    /\ fz = NoCall
    /\ emb = "none"
    /\ rpc = NoCall
    /\ sp_result = <<>>
    /\ IdleFilter
    /\ IdleChat
    /\ IdleHelper
    /\ IdleStream /\ IdleOthers
    /\ IdleStats

\* the synchronous part of searchProducts, up to await Promise.all
SearchStart ==
    /\ sp_pc = "init"
    /\ IF ~supabaseOk
       THEN /\ sp_pc' = "returned"
            /\ UNCHANGED <<partNumbers, fuzzyTerms, kw, fz, emb, rpc>>
       ELSE /\ sp_pc' = "awaiting"
            /\ partNumbers' = AllPartMatches(question)
            /\ fuzzyTerms' = FuzzyTerms(question)
            /\ kw' = [k \in 1..Len(AllPartMatches(question)) |-> Pending]
            /\ fz' = IF FuzzyTerms(question) # <<>> THEN Pending ELSE NoCall
            /\ emb' = "pending"
            /\ rpc' = NoCall
    /\ sp_result' = <<>>
    /\ UNCHANGED <<storeSize, supabaseOk, question, matchCount, nonSearchVars>>

\* the keyword query of part number i answers with rows
KeywordSettle(i, ord) ==
    /\ sp_pc = "awaiting" /\ i \in 1..Len(kw) /\ kw[i].st = "pending"
    /\ kw' = [kw EXCEPT ![i] =
                [st |-> "ok",
                 rows |-> Limit(Rows(storeSize,
                                     {id \in 1..storeSize : CodeOrNameLike(id, partNumbers[i])},
                                     ord), matchCount)]]
    /\ UNCHANGED <<storeSize, supabaseOk, question, matchCount, partNumbers, fuzzyTerms, sp_pc, fz, emb, rpc, sp_result, nonSearchVars>>

\* it answers {data: null, error}
KeywordDbError(i) ==
    /\ sp_pc = "awaiting" /\ i \in 1..Len(kw) /\ kw[i].st = "pending"
    /\ kw' = [kw EXCEPT ![i].st = "dberror"]
    /\ UNCHANGED <<storeSize, supabaseOk, question, matchCount, partNumbers, fuzzyTerms, sp_pc, fz, emb, rpc, sp_result, nonSearchVars>>

KeywordHang(i) ==
    /\ sp_pc = "awaiting" /\ i \in 1..Len(kw) /\ kw[i].st = "pending"
    /\ kw' = [kw EXCEPT ![i].st = "hung"]
    /\ UNCHANGED <<storeSize, supabaseOk, question, matchCount, partNumbers, fuzzyTerms, sp_pc, fz, emb, rpc, sp_result, nonSearchVars>>

\* the DB_TIMEOUT timer of the race rejects first
KeywordTimeout(i) ==
    /\ sp_pc = "awaiting" /\ i \in 1..Len(kw) /\ InFlight(kw[i])
    /\ kw' = [kw EXCEPT ![i].st = "timeout"]
    /\ UNCHANGED <<storeSize, supabaseOk, question, matchCount, partNumbers, fuzzyTerms, sp_pc, fz, emb, rpc, sp_result, nonSearchVars>>

FuzzySettle(ord) ==
    /\ sp_pc = "awaiting" /\ fz.st = "pending"
    /\ fz' = [st |-> "ok",
              rows |-> Limit(Rows(storeSize,
                                  {id \in 1..storeSize : AnyTermLike4(id, fuzzyTerms)}, ord),
                             matchCount)]
    /\ UNCHANGED <<storeSize, supabaseOk, question, matchCount, partNumbers, fuzzyTerms, sp_pc, kw, emb, rpc, sp_result, nonSearchVars>>

FuzzyDbError ==
    /\ sp_pc = "awaiting" /\ fz.st = "pending"
    /\ fz' = [fz EXCEPT !.st = "dberror"]
    /\ UNCHANGED <<storeSize, supabaseOk, question, matchCount, partNumbers, fuzzyTerms, sp_pc, kw, emb, rpc, sp_result, nonSearchVars>>

FuzzyHang ==
    /\ sp_pc = "awaiting" /\ fz.st = "pending"
    /\ fz' = [fz EXCEPT !.st = "hung"]
    /\ UNCHANGED <<storeSize, supabaseOk, question, matchCount, partNumbers, fuzzyTerms, sp_pc, kw, emb, rpc, sp_result, nonSearchVars>>

FuzzyTimeout ==
    /\ sp_pc = "awaiting" /\ InFlight(fz)
    /\ fz' = [fz EXCEPT !.st = "timeout"]
    /\ UNCHANGED <<storeSize, supabaseOk, question, matchCount, partNumbers, fuzzyTerms, sp_pc, kw, emb, rpc, sp_result, nonSearchVars>>

\* embedQuery resolves; the async block goes on to await supabase.rpc
EmbedSettle ==
    /\ sp_pc = "awaiting" /\ emb = "pending"
    /\ emb' = "ok"
    /\ rpc' = Pending
    /\ UNCHANGED <<storeSize, supabaseOk, question, matchCount, partNumbers, fuzzyTerms, sp_pc, kw, fz, sp_result, nonSearchVars>>

\* embedQuery throws: no AI client, an API error, no values
EmbedFail ==
    /\ sp_pc = "awaiting" /\ emb = "pending"
    /\ emb' = "error"
    /\ UNCHANGED <<storeSize, supabaseOk, question, matchCount, partNumbers, fuzzyTerms, sp_pc, kw, fz, rpc, sp_result, nonSearchVars>>

EmbedHang ==
    /\ sp_pc = "awaiting" /\ emb = "pending"
    /\ emb' = "hung"
    /\ UNCHANGED <<storeSize, supabaseOk, question, matchCount, partNumbers, fuzzyTerms, sp_pc, kw, fz, rpc, sp_result, nonSearchVars>>

\* one of the two 15 s timers (in embedQuery, around embedQuery) rejects first
EmbedTimeout ==
    /\ sp_pc = "awaiting" /\ emb \in {"pending", "hung"}
    /\ emb' = "timeout"
    /\ UNCHANGED <<storeSize, supabaseOk, question, matchCount, partNumbers, fuzzyTerms, sp_pc, kw, fz, rpc, sp_result, nonSearchVars>>

\* match_products answers with its n best rows, n <= match_count
RpcSettle(n) ==
    /\ sp_pc = "awaiting" /\ rpc.st = "pending"
    /\ n <= storeSize /\ n <= matchCount
    /\ rpc' = [st |-> "ok",
               rows |-> LET best == SortBySimilarity(TagVector(Upto(storeSize)))
                        IN  [k \in 1..n |-> best[k].id]]
    /\ UNCHANGED <<storeSize, supabaseOk, question, matchCount, partNumbers, fuzzyTerms, sp_pc, kw, fz, emb, sp_result, nonSearchVars>>

\* it answers {data: null, error}
RpcDbError ==
    /\ sp_pc = "awaiting" /\ rpc.st = "pending"
    /\ rpc' = [rpc EXCEPT !.st = "dberror"]
    /\ UNCHANGED <<storeSize, supabaseOk, question, matchCount, partNumbers, fuzzyTerms, sp_pc, kw, fz, emb, sp_result, nonSearchVars>>

\* the awaited call rejects
RpcThrow ==
    /\ sp_pc = "awaiting" /\ rpc.st = "pending"
    /\ rpc' = [rpc EXCEPT !.st = "rejected"]
    /\ UNCHANGED <<storeSize, supabaseOk, question, matchCount, partNumbers, fuzzyTerms, sp_pc, kw, fz, emb, sp_result, nonSearchVars>>

\* no timer races the rpc call
RpcHang ==
    /\ sp_pc = "awaiting" /\ rpc.st = "pending"
    /\ rpc' = [rpc EXCEPT !.st = "hung"]
    /\ UNCHANGED <<storeSize, supabaseOk, question, matchCount, partNumbers, fuzzyTerms, sp_pc, kw, fz, emb, sp_result, nonSearchVars>>

\* What a promise of searchPromises has become: "waiting", "rejected", or
\* fulfilled with a batch.
Fulfilled(batch) == [state |-> "fulfilled", value |-> batch]

Rejected == [state |-> "rejected", value |-> <<>>]

Waiting == [state |-> "waiting", value |-> <<>>]

\* the race without its .catch: the timer's rejection reaches Promise.all
RacedQueryNoCatch(c, sim, type) ==
    CASE c.st = "ok"      -> Fulfilled(TagAll(c.rows, sim, type))
      [] c.st = "dberror" -> Fulfilled(<<>>)
      [] c.st = "timeout" -> Rejected
      [] OTHER            -> Waiting

\* Promise.race([query.then(tag), timer]).catch(err => [])
RacedQuery(c, sim, type) ==
    CASE c.st = "ok"      -> Fulfilled(TagAll(c.rows, sim, type))
      [] c.st = "dberror" -> Fulfilled(<<>>)
      [] c.st = "timeout" -> Fulfilled(<<>>)
      [] OTHER            -> Waiting

KeywordPromise(c) == RacedQuery(c, KeywordSimilarity, "keyword")

FuzzyPromise(c) == RacedQuery(c, FuzzySimilarity, "fuzzy")

\* the async block of the vector strategy: try { embed; rpc } catch { return [] }
VectorPromise(e, r) ==
    CASE e \in {"error", "timeout"} -> Fulfilled(<<>>)
      [] e = "ok" /\ r.st = "ok"       -> Fulfilled(TagVector(r.rows))
      [] e = "ok" /\ r.st = "dberror"  -> Fulfilled(<<>>)
      [] e = "ok" /\ r.st = "rejected" -> Fulfilled(<<>>)
      [] OTHER                         -> Waiting

\* searchPromises, in the order they were pushed
SearchPromises ==
    [k \in 1..Len(kw) |-> KeywordPromise(kw[k])]
        \o (IF fz.st = "none" THEN <<>> ELSE <<FuzzyPromise(fz)>>)
        \o <<VectorPromise(emb, rpc)>>

\* Promise.all
PromiseAll(ps) ==
    IF \E k \in 1..Len(ps) : ps[k].state = "rejected" THEN Rejected
    ELSE IF \E k \in 1..Len(ps) : ps[k].state = "waiting" THEN Waiting
    ELSE Fulfilled([k \in 1..Len(ps) |-> ps[k].value])

\* Promise.all settles: merge, sort, cap; the outer catch returns []
SearchReturn ==
    /\ sp_pc = "awaiting"
    /\ PromiseAll(SearchPromises).state # "waiting"
    /\ sp_result' = IF PromiseAll(SearchPromises).state = "rejected" THEN <<>>
                    ELSE Slice(SortBySimilarity(MergeAll(<<>>, PromiseAll(SearchPromises).value)),
                               matchCount)
    /\ sp_pc' = "returned"
    /\ UNCHANGED <<storeSize, supabaseOk, question, matchCount, partNumbers, fuzzyTerms, kw, fz, emb, rpc, nonSearchVars>>

NextSearch ==
    \/ SearchStart
    \/ \E i \in 1..Len(kw), ord \in RowOrders : KeywordSettle(i, ord)
    \/ \E i \in 1..Len(kw) : KeywordDbError(i)
    \/ \E i \in 1..Len(kw) : KeywordHang(i)
    \/ \E i \in 1..Len(kw) : KeywordTimeout(i)
    \/ \E ord \in RowOrders : FuzzySettle(ord)
    \/ FuzzyDbError
    \/ FuzzyHang
    \/ FuzzyTimeout
    \/ EmbedSettle
    \/ EmbedFail
    \/ EmbedHang
    \/ EmbedTimeout
    \/ \E n \in 0..MaxMatchCount : RpcSettle(n)
    \/ RpcDbError
    \/ RpcThrow
    \/ RpcHang
    \/ SearchReturn

SearchSpec == InitSearch /\ [][NextSearch]_vars

(***************************************************************************)
(* filterDatasheetsByCitations applied to bounded inputs                   *)
(***************************************************************************)
MaxCandidates == 2

ResponseTexts ==
    {"", "The **JB02HR** is ideal...", "**JB17 Chest:** holds 12", "use rs140 or JB02",
     "see **AB1** and **jb02hr**", "Nothing relevant.", "try JB02HR-MK2 or HS12345",
     "AB12 fits; **JB17**"}

CandidateCodes == {"JB02HR", "JB17", "JB02", "jb02hr-mk2", "AB12", "AB1", "KIT-JB17", "JB0"}

CandidateLists ==
    UNION {[1..n -> {Datasheet(c) : c \in CandidateCodes}] : n \in 0..MaxCandidates}

InitFilter ==
    /\ responseText \in ResponseTexts
    /\ allDatasheets \in CandidateLists
    /\ f_pc = "init"
    /\ filtered = <<>>
    /\ IdleSearch
    /\ IdleChat
    /\ IdleHelper
    /\ IdleStream /\ IdleOthers
    /\ IdleStats

FilterCall ==
    /\ f_pc = "init"
    /\ filtered' = FilterDatasheetsByCitations(responseText, allDatasheets)
    /\ f_pc' = "returned"
    /\ UNCHANGED <<responseText, allDatasheets, nonFilterVars>>

NextFilter == FilterCall

FilterSpec == InitFilter /\ [][NextFilter]_vars

(***************************************************************************)
(* POST /api/chat/stream as a process, for requests without uploaded files *)
(* and with queries of at most 200 characters, up to the assembly of the   *)
(* context.  h_pc is the handler's position; searchProducts runs as the    *)
(* process above while h_pc = "searching".                                 *)
(***************************************************************************)
SmallStore == 4

LargeStore == 33

ChatStoreSizes == {SmallStore, LargeStore}

ChatQueries ==
    {"what fire hose cabinets do you have", "ip56 fire hose cabinets with door seal",
     "fire extinguisher cabinet", "what about them", "what colour is it",
     "how many products do you have"}

Msg(role, content) == [role |-> role, content |-> content]

Histories ==
    {<<>>,
     <<Msg("user", "tell me about the JB17"), Msg("assistant", "The **JB17** is a chest.")>>,
     <<Msg("user", "compare JB02HR and jb17"),
       Msg("assistant", "JB02HR and JB17 differ; see also RS140, SOS603T.")>>}

\* what the handler derives from the request text alone
QueryFacts ==
    [q \in ChatQueries |->
        [meta |-> IsMetaQuery(q), expanded |-> ExpandQuery(q), specValue |-> SpecValueOf(q),
         category |-> LowerAll(FindTerms(categoryPatterns, q)),
         feature |-> LowerAll(FindTerms(featurePatterns, q))]]

Route == [q \in ChatQueries |-> [h \in Histories |-> PathOf(q, h)]]

HistoryCodes == [h \in Histories |-> ExtractProductCodesFromHistory(h)]

SpecFollowUpCodes ==
    [q \in ChatQueries |-> [h \in Histories |-> Slice(AllCodes(q, h), MaxSpecFollowUpCodes)]]

historyProductCodes == HistoryCodes[history]

InitChat ==
    /\ storeSize \in ChatStoreSizes
    /\ supabaseOk \in BOOLEAN
    /\ query \in ChatQueries
    /\ history \in Histories
    /\ h_pc = "received"
    /\ path = "none"
    /\ searchResults = <<>>
    /\ primaryResults = <<>>
    /\ passes = NoPasses
    /\ failedLookups = {}
    /\ IdleSearchCall
    /\ IdleFilter
    /\ IdleHelper
    /\ IdleStream /\ IdleOthers
    /\ IdleStats

\* where the standard path goes after its primary search
AfterPrimary(p) == IF p = "standard" THEN "specValue" ELSE "history"

WriteToAlways(evs, isEnded, ev) == Append(evs, ev)

\* res.write on a response: dropped once the response has ended
WriteTo(evs, isEnded, ev) == IF isEnded THEN evs ELSE Append(evs, ev)

Write(ev) == WriteTo(events, ended \/ closed, ev)

\* the kinds of write attempted once res.end() has been called
Late(types) == IF ended THEN lateWrites \cup types ELSE lateWrites

\* cleanup(): clearTimeout(globalTimer)
Cleared(timer) == IF timer = "armed" THEN "cleared" ELSE timer

\* the status message of the branch taken
PathStatus(p) ==
    CASE p = "fast" -> "Generating response..."
      [] p = "specFollowUp" -> "Looking up specifications..."
      [] OTHER -> "Searching Knowledge Base..."

RejectQueryNoEnd ==
    /\ events' = <<Status("Analyzing query..."), ErrorEvent("Query is required")>>
    /\ requestDone' = TRUE
    /\ globalTimer' = "cleared"
    /\ ended' = FALSE

\* if (!query): the error event, cleanup(), res.end()
RejectQuery ==
    /\ events' = <<Status("Analyzing query..."), ErrorEvent("Query is required")>>
    /\ requestDone' = TRUE
    /\ globalTimer' = "cleared"
    /\ ended' = TRUE

\* from the request to the first await: the headers, the timers, the first
\* status event, the test of the query, follow-up detection, choice of path
ChatReceive ==
    /\ h_pc = "received"
    /\ statusCode' = 200
    /\ IF query = ""
       THEN /\ RejectQuery
            /\ h_pc' = "returned"
            /\ UNCHANGED path
       ELSE /\ path' = Route[query][history]
            /\ h_pc' = CASE Route[query][history] = "fast" -> "context"
                         [] Route[query][history] = "specFollowUp" ->
                                IF supabaseOk THEN "specLookup" ELSE "expand"
                         [] OTHER -> IF QueryFacts[query].meta THEN "specValue" ELSE "expand"
            /\ events' = <<Status("Analyzing query..."), Status(PathStatus(Route[query][history]))>>
                            \o IF Route[query][history] = "specFollowUp" /\ ~supabaseOk
                               THEN <<Status("Searching Knowledge Base...")>> ELSE <<>>
            /\ globalTimer' = "armed"
            /\ UNCHANGED <<ended, requestDone>>
    /\ UNCHANGED <<query, history, searchResults, primaryResults, passes, failedLookups,
                   referencedDatasheets, stream, fullText, chunkCount, lateWrites, closed,
                   searchVars, nonHandlerVars>>

\* the spec follow-up lookups settle within DB_TIMEOUT; the lookups of the
\* set ok answer with rows, the others with an error (data || [], .catch)
SpecFollowUpSettle(ok, ord) ==
    /\ h_pc = "specLookup"
    /\ LET codes == SpecFollowUpCodes[query][history]
           codeResults == [k \in 1..Len(codes) |->
                              IF k \in ok THEN BaseCodeLookup(storeSize, codes[k], ord)
                              ELSE <<>>]
           found == AppendNew(<<>>, Flatten(codeResults), SpecFollowUpSimilarity, "none")
       IN  /\ ok \subseteq 1..Len(codes)
           /\ searchResults' = found
           /\ failedLookups' = failedLookups \cup {codes[k] : k \in (1..Len(codes)) \ ok}
           /\ h_pc' = IF found = <<>> THEN "expand" ELSE "history"
           /\ events' = IF found = <<>> THEN Write(Status("Searching Knowledge Base..."))
                         ELSE events
           /\ lateWrites' = IF found = <<>> THEN Late({"status"}) ELSE lateWrites
    /\ UNCHANGED <<query, history, path, primaryResults, passes, statusCode, closed, ended,
                   requestDone, globalTimer, referencedDatasheets, stream, fullText,
                   chunkCount, searchVars, nonHandlerVars>>

\* the Spec lookup timeout timer wins the race
SpecFollowUpTimeout ==
    /\ h_pc = "specLookup"
    /\ h_pc' = "expand"
    /\ failedLookups' = failedLookups \cup SeqToSet(SpecFollowUpCodes[query][history])
    /\ events' = Write(Status("Searching Knowledge Base..."))
    /\ lateWrites' = Late({"status"})
    /\ UNCHANGED <<query, history, path, searchResults, primaryResults, passes, statusCode, closed,
                   ended, requestDone, globalTimer, referencedDatasheets, stream, fullText,
                   chunkCount, searchVars, nonHandlerVars>>

\* expandQuery returns e and searchProducts(e, 15) is called
ExpandAndSearch(e) ==
    /\ h_pc = "expand"
    /\ e \in IF aiReady THEN QueryFacts[query].expanded ELSE {query}
    /\ question' = e
    /\ matchCount' = PrimaryMatchCount
    /\ sp_pc' = "init"
    /\ h_pc' = "searching"
    /\ UNCHANGED <<query, history, path, searchResults, primaryResults, passes, failedLookups,
                   storeSize, supabaseOk, partNumbers, fuzzyTerms, kw, fz, emb, rpc,
                   sp_result, nonChatVars>>

PrimaryReturnUnawaited ==
    /\ h_pc = "searching"
    /\ searchResults' = sp_result
    /\ primaryResults' = sp_result
    /\ h_pc' = AfterPrimary(path)
    /\ UNCHANGED <<query, history, path, passes, failedLookups, searchVars, nonChatVars>>

\* searchProducts has returned; its promises are dropped
PrimaryReturn ==
    /\ h_pc = "searching" /\ sp_pc = "returned"
    /\ searchResults' = sp_result
    /\ primaryResults' = sp_result
    /\ h_pc' = AfterPrimary(path)
    /\ question' = "" /\ matchCount' = 0 /\ sp_pc' = "idle"
    /\ partNumbers' = <<>> /\ fuzzyTerms' = <<>>
    /\ kw' = <<>> /\ fz' = NoCall /\ emb' = "none" /\ rpc' = NoCall /\ sp_result' = <<>>
    /\ UNCHANGED <<query, history, path, passes, failedLookups, storeSize, supabaseOk, nonChatVars>>

SortAndCutNoSort(results, cap) == Slice(results, cap)

\* what a pass that ran to its end leaves: the sorted list, cut at cap
SortAndCut(results, cap) == Slice(SortBySimilarity(results), cap)

\* no spec value in the query, or no store client
SpecValueSkip ==
    /\ h_pc = "specValue"
    /\ QueryFacts[query].specValue = <<>> \/ ~supabaseOk
    /\ h_pc' = "category"
    /\ UNCHANGED <<query, history, path, passes, searchResults, primaryResults, failedLookups,
                   searchVars, nonChatVars>>

\* the scan answers with the first 200 rows
SpecValueSettle(ord) ==
    /\ h_pc = "specValue"
    /\ QueryFacts[query].specValue # <<>> /\ supabaseOk
    /\ LET allProducts == Limit(Rows(storeSize, 1..storeSize, ord), ScanLimit)
           hits == SelectSeq(allProducts,
                             LAMBDA id : HasSpecValue(id, QueryFacts[query].specValue[1]))
       IN  searchResults' =
               SortAndCut(AppendNew(searchResults, hits, SpecFilterSimilarity, "spec-filter"),
                          SpecFilterCap)
    /\ h_pc' = "category"
    /\ UNCHANGED <<query, history, path, passes, primaryResults, failedLookups, searchVars, nonChatVars>>

\* the scan answers {data: null, error}: nothing to add, the list is still
\* sorted and cut
SpecValueDbError ==
    /\ h_pc = "specValue"
    /\ QueryFacts[query].specValue # <<>> /\ supabaseOk
    /\ searchResults' = SortAndCut(searchResults, SpecFilterCap)
    /\ h_pc' = "category"
    /\ UNCHANGED <<query, history, path, passes, primaryResults, failedLookups, searchVars, nonChatVars>>

\* the Spec Filter Timeout timer wins the race (or the scan rejects): caught
SpecValueTimeout ==
    /\ h_pc = "specValue"
    /\ QueryFacts[query].specValue # <<>> /\ supabaseOk
    /\ h_pc' = "category"
    /\ UNCHANGED <<query, history, path, passes, searchResults, primaryResults, failedLookups,
                   searchVars, nonChatVars>>

CategorySkip ==
    /\ h_pc = "category"
    /\ QueryFacts[query].category = <<>> \/ ~supabaseOk
    /\ h_pc' = "feature"
    /\ passes' = [passes EXCEPT !.category = "skipped"]
    /\ UNCHANGED <<query, history, path, searchResults, primaryResults, failedLookups,
                   searchVars, nonChatVars>>

\* the category query answers with its first 50 rows
CategorySettle(ord) ==
    /\ h_pc = "category"
    /\ QueryFacts[query].category # <<>> /\ supabaseOk
    /\ LET catProducts ==
               Limit(Rows(storeSize,
                          {id \in 1..storeSize :
                               AnyCategoryTermLike(id, QueryFacts[query].category)},
                          ord), CategoryLimit)
       IN  searchResults' =
               SortAndCut(AppendNew(searchResults, catProducts, CategorySimilarity, "category"),
                          CategoryCap)
    /\ h_pc' = "feature"
    /\ passes' = [passes EXCEPT !.category = "ok"]
    /\ UNCHANGED <<query, history, path, primaryResults, failedLookups, searchVars, nonChatVars>>

CategoryDbError ==
    /\ h_pc = "category"
    /\ QueryFacts[query].category # <<>> /\ supabaseOk
    /\ searchResults' = SortAndCut(searchResults, CategoryCap)
    /\ h_pc' = "feature"
    /\ passes' = [passes EXCEPT !.category = "dberror"]
    /\ UNCHANGED <<query, history, path, primaryResults, failedLookups, searchVars, nonChatVars>>

CategoryTimeout ==
    /\ h_pc = "category"
    /\ QueryFacts[query].category # <<>> /\ supabaseOk
    /\ h_pc' = "feature"
    /\ passes' = [passes EXCEPT !.category = "timeout"]
    /\ UNCHANGED <<query, history, path, searchResults, primaryResults, failedLookups,
                   searchVars, nonChatVars>>

FeatureSkip ==
    /\ h_pc = "feature"
    /\ QueryFacts[query].feature = <<>> \/ ~supabaseOk
    /\ h_pc' = "history"
    /\ UNCHANGED <<query, history, path, passes, searchResults, primaryResults, failedLookups,
                   searchVars, nonChatVars>>

\* the scan answers with the first 200 rows
FeatureSettle(ord) ==
    /\ h_pc = "feature"
    /\ QueryFacts[query].feature # <<>> /\ supabaseOk
    /\ LET allProducts == Limit(Rows(storeSize, 1..storeSize, ord), ScanLimit)
           hits == SelectSeq(allProducts,
                             LAMBDA id : HasFeature(id, QueryFacts[query].feature))
       IN  searchResults' =
               SortAndCut(AppendNew(searchResults, hits, FeatureSimilarity, "feature-filter"),
                          FeatureCap)
    /\ h_pc' = "history"
    /\ UNCHANGED <<query, history, path, passes, primaryResults, failedLookups, searchVars, nonChatVars>>

FeatureDbError ==
    /\ h_pc = "feature"
    /\ QueryFacts[query].feature # <<>> /\ supabaseOk
    /\ searchResults' = SortAndCut(searchResults, FeatureCap)
    /\ h_pc' = "history"
    /\ UNCHANGED <<query, history, path, passes, primaryResults, failedLookups, searchVars, nonChatVars>>

FeatureTimeout ==
    /\ h_pc = "feature"
    /\ QueryFacts[query].feature # <<>> /\ supabaseOk
    /\ h_pc' = "history"
    /\ UNCHANGED <<query, history, path, passes, searchResults, primaryResults, failedLookups,
                   searchVars, nonChatVars>>

\* missingCodes.slice(0, 3)
HistoryLookupCodes(results, codes) == Slice(MissingCodes(results, codes), MaxHistoryLookups)

\* no history codes, none missing from the list, or no store client
HistorySkip ==
    /\ h_pc = "history"
    /\ MissingCodes(searchResults, historyProductCodes) = <<>> \/ ~supabaseOk
    /\ h_pc' = "context"
    /\ passes' = [passes EXCEPT !.history = "skipped"]
    /\ UNCHANGED <<query, history, path, searchResults, primaryResults, failedLookups,
                   searchVars, nonChatVars>>

\* the lookups settle within DB_TIMEOUT; those of the set ok answer with
\* rows, the others with an error
HistorySettle(ok, ord) ==
    /\ h_pc = "history"
    /\ MissingCodes(searchResults, historyProductCodes) # <<>> /\ supabaseOk
    /\ LET codes == HistoryLookupCodes(searchResults, historyProductCodes)
           supplementResults == [k \in 1..Len(codes) |->
                                    IF k \in ok THEN CodeLookup(storeSize, codes[k], ord)
                                    ELSE <<>>]
       IN  /\ ok \subseteq 1..Len(codes)
           /\ searchResults' = AppendNew(searchResults, Flatten(supplementResults),
                                         HistorySimilarity, "none")
           /\ failedLookups' = failedLookups \cup {codes[k] : k \in (1..Len(codes)) \ ok}
    /\ h_pc' = "context"
    /\ passes' = [passes EXCEPT !.history = "ok"]
    /\ UNCHANGED <<query, history, path, primaryResults, searchVars, nonChatVars>>

\* the History Supplement Timeout timer wins the race
HistoryTimeout ==
    /\ h_pc = "history"
    /\ MissingCodes(searchResults, historyProductCodes) # <<>> /\ supabaseOk
    /\ h_pc' = "context"
    /\ passes' = [passes EXCEPT !.history = "timeout"]
    /\ failedLookups' = failedLookups
                            \cup SeqToSet(HistoryLookupCodes(searchResults, historyProductCodes))
    /\ UNCHANGED <<query, history, path, searchResults, primaryResults, searchVars, nonChatVars>>

\* the rows match_products can answer with: none, or its match_count best
RpcCounts == {0, Min(storeSize, matchCount)}

NextChat ==
    \/ ChatReceive
    \/ \E ok \in SUBSET (1..MaxSpecFollowUpCodes), ord \in RowOrders : SpecFollowUpSettle(ok, ord)
    \/ SpecFollowUpTimeout
    \/ \E e \in AiExpansions \cup ChatQueries : ExpandAndSearch(e)
    \/ PrimaryReturn
    \/ SpecValueSkip
    \/ \E ord \in RowOrders : SpecValueSettle(ord)
    \/ SpecValueDbError
    \/ SpecValueTimeout
    \/ CategorySkip
    \/ \E ord \in RowOrders : CategorySettle(ord)
    \/ CategoryDbError
    \/ CategoryTimeout
    \/ FeatureSkip
    \/ \E ord \in RowOrders : FeatureSettle(ord)
    \/ FeatureDbError
    \/ FeatureTimeout
    \/ HistorySkip
    \/ \E ok \in SUBSET (1..MaxHistoryLookups), ord \in RowOrders : HistorySettle(ok, ord)
    \/ HistoryTimeout
    \/ SearchStart
    \/ \E i \in 1..Len(kw), ord \in RowOrders : KeywordSettle(i, ord)
    \/ \E i \in 1..Len(kw) : KeywordDbError(i)
    \/ \E i \in 1..Len(kw) : KeywordHang(i)
    \/ \E i \in 1..Len(kw) : KeywordTimeout(i)
    \/ \E ord \in RowOrders : FuzzySettle(ord)
    \/ FuzzyDbError
    \/ FuzzyHang
    \/ FuzzyTimeout
    \/ EmbedSettle
    \/ EmbedFail
    \/ EmbedHang
    \/ EmbedTimeout
    \/ \E n \in RpcCounts : RpcSettle(n)
    \/ RpcDbError
    \/ RpcThrow
    \/ RpcHang
    \/ SearchReturn

ChatSpec == InitChat /\ [][NextChat]_vars

(***************************************************************************)
(* POST /api/chat/stream from the assembled context to the end of the      *)
(* response, with the 60 s global timer.  The timer can fire whenever it   *)
(* is armed; the handler is not cancelled by it and runs on.  The          *)
(* keepalive comments are not data events and are left out.                *)
(***************************************************************************)
StreamStore == 5

StreamQueries ==
    {"", "ip56 fire hose cabinets with door seal", "what colour is it", "what about them"}

StreamHistories ==
    {<<>>,
     <<Msg("user", "tell me about the JB17"), Msg("assistant", "The **JB17** is a chest.")>>}

\* the chunks of the completion stream, in order; a stream can end, break or
\* stall after any number of them
ModelChunks == <<"The **JB17** fits", "", " (Source: JB17.pdf) well">>

InitStream ==
    /\ storeSize = StreamStore
    /\ supabaseOk \in BOOLEAN
    /\ query \in StreamQueries
    /\ history \in StreamHistories
    /\ h_pc = "received"
    /\ path = "none"
    /\ searchResults = <<>>
    /\ primaryResults = <<>>
    /\ passes = NoPasses
    /\ failedLookups = {}
    /\ IdleSearchCall
    /\ IdleFilter
    /\ fn = "none" /\ arg = "" /\ argHistory = <<>> /\ fn_pc = "idle" /\ aiReady \in BOOLEAN
    /\ gen = NoGen /\ genCalls = 0 /\ expanded = "" /\ phrases = <<>>
    /\ IdleStream /\ IdleOthers
    /\ IdleStats

\* the second status event, getAI() and the call of generateContentStream,
\* raced against the 45 s timer; without an AI client ai.models throws inside
\* the try and the catch writes the error event and ends the response
GenerationStart ==
    LET evs == Write(Status("Generating response..."))
    IN  IF aiReady
        THEN /\ events' = evs
             /\ lateWrites' = Late({"status"})
             /\ stream' = "pending"
             /\ h_pc' = "generating"
             /\ UNCHANGED ended
        ELSE /\ events' = WriteTo(evs, ended \/ closed,
                                  ErrorEvent("AI Advisor is currently busy or unavailable."))
             /\ lateWrites' = Late({"status", "error"})
             /\ ended' = TRUE
             /\ stream' = "unavailable"
             /\ h_pc' = "returned"

\* the context is assembled; getKnowledgeBaseStats() is awaited unless the
\* request took the fast path
AssembleContext ==
    /\ h_pc = "context"
    /\ referencedDatasheets' = ExtractDatasheetReferences(searchResults)
    /\ IF path = "fast" THEN GenerationStart
       ELSE /\ h_pc' = "stats"
            /\ UNCHANGED <<events, ended, stream, lateWrites>>
    /\ UNCHANGED <<query, history, path, searchResults, primaryResults, passes, failedLookups,
                   statusCode, closed, requestDone, globalTimer, fullText, chunkCount,
                   searchVars, nonHandlerVars>>

\* getKnowledgeBaseStats() has returned (it always does: its store calls are
\* raced against timers and its failures are caught)
StatsReturn ==
    /\ h_pc = "stats"
    /\ GenerationStart
    /\ UNCHANGED <<query, history, path, searchResults, primaryResults, passes, failedLookups,
                   statusCode, closed, requestDone, globalTimer, referencedDatasheets, fullText,
                   chunkCount, searchVars, nonHandlerVars>>

\* generateContentStream resolves with a stream
GenerateSettle ==
    /\ h_pc = "generating" /\ stream = "pending"
    /\ stream' = "open"
    /\ h_pc' = "streaming"
    /\ UNCHANGED <<query, history, path, searchResults, primaryResults, passes, failedLookups,
                   events, statusCode, closed, lateWrites, ended, requestDone, globalTimer,
                   referencedDatasheets, fullText, chunkCount, searchVars, nonHandlerVars>>

GenerateFailNoEnd(how) ==
    /\ h_pc = "generating" /\ stream = "pending"
    /\ stream' = how
    /\ events' = Write(ErrorEvent("AI Advisor is currently busy or unavailable."))
    /\ lateWrites' = Late({"error"})
    /\ h_pc' = "returned"
    /\ UNCHANGED <<query, history, path, searchResults, primaryResults, passes, failedLookups,
                   statusCode, closed, ended, requestDone, globalTimer, referencedDatasheets,
                   fullText, chunkCount, searchVars, nonHandlerVars>>

\* generateContentStream rejects (how = "failed") or its 45 s timer wins the
\* race (how = "timeout"): catch (genError)
GenerateFail(how) ==
    /\ h_pc = "generating" /\ stream = "pending"
    /\ stream' = how
    /\ events' = Write(ErrorEvent("AI Advisor is currently busy or unavailable."))
    /\ lateWrites' = Late({"error"})
    /\ ended' = TRUE
    /\ h_pc' = "returned"
    /\ UNCHANGED <<query, history, path, searchResults, primaryResults, passes, failedLookups,
                   statusCode, closed, requestDone, globalTimer, referencedDatasheets,
                   fullText, chunkCount, searchVars, nonHandlerVars>>

\* after the chunk loop: the citation filter, the done event unless
\* requestDone, cleanup().  evs is the event list the loop left, how the way
\* the loop ended.
Finish(evs, how) ==
    /\ events' = IF requestDone THEN evs
                 ELSE WriteTo(evs, ended \/ closed,
                              Event("done", StripCitations(fullText),
                                    FilterDatasheetsByCitations(fullText, referencedDatasheets)))
    /\ lateWrites' = IF requestDone THEN lateWrites
                     ELSE Late(IF how = "broken" THEN {"chunk", "done"} ELSE {"done"})
    /\ ended' = (ended \/ ~requestDone)
    /\ requestDone' = TRUE
    /\ globalTimer' = Cleared(globalTimer)
    /\ stream' = how
    /\ h_pc' = "returned"

\* the next chunk arrives: the loop breaks if requestDone, else the chunk is
\* added to fullText and, unless empty, the stripped text so far is written
ChunkArrives ==
    /\ h_pc = "streaming" /\ stream = "open" /\ chunkCount < Len(ModelChunks)
    /\ IF requestDone
       THEN /\ Finish(events, "abandoned")
            /\ UNCHANGED <<fullText, chunkCount>>
       ELSE /\ chunkCount' = chunkCount + 1
            /\ fullText' = fullText \o ModelChunks[chunkCount + 1]
            /\ events' = IF ModelChunks[chunkCount + 1] = "" THEN events
                         ELSE Write(Event("chunk", StripCitations(fullText'), <<>>))
            /\ lateWrites' = IF ModelChunks[chunkCount + 1] = "" THEN lateWrites
                             ELSE Late({"chunk"})
            /\ UNCHANGED <<ended, requestDone, globalTimer, stream, h_pc>>
    /\ UNCHANGED <<query, history, path, searchResults, primaryResults, passes, failedLookups,
                   statusCode, closed, referencedDatasheets, searchVars, nonHandlerVars>>

\* the stream is exhausted
StreamEnds ==
    /\ h_pc = "streaming" /\ stream = "open"
    /\ Finish(events, "complete")
    /\ UNCHANGED <<query, history, path, searchResults, primaryResults, passes, failedLookups,
                   statusCode, closed, referencedDatasheets, fullText, chunkCount,
                   searchVars, nonHandlerVars>>

\* the iteration throws: catch (streamIterError) writes the text so far with
\* the cut-short marker unless requestDone
StreamIterError ==
    /\ h_pc = "streaming" /\ stream = "open"
    /\ Finish(IF requestDone THEN events
              ELSE Write(Event("chunk", fullText \o CutShortMarker, <<>>)), "broken")
    /\ UNCHANGED <<query, history, path, searchResults, primaryResults, passes, failedLookups,
                   statusCode, closed, referencedDatasheets, fullText, chunkCount,
                   searchVars, nonHandlerVars>>

GlobalTimeoutNoEnd ==
    /\ globalTimer = "armed"
    /\ globalTimer' = "fired"
    /\ IF requestDone THEN UNCHANGED <<events, ended, lateWrites>>
       ELSE /\ events' = Write(ErrorEvent("Request timed out. Please try again."))
            /\ lateWrites' = Late({"error"})
            /\ UNCHANGED ended
    /\ UNCHANGED <<chatVars, statusCode, closed, requestDone, referencedDatasheets, stream, fullText,
                   chunkCount, searchVars, nonHandlerVars>>

\* the 60 s timer fires
GlobalTimeout ==
    /\ globalTimer = "armed"
    /\ globalTimer' = "fired"
    /\ IF requestDone THEN UNCHANGED <<events, ended, lateWrites>>
       ELSE /\ events' = Write(ErrorEvent("Request timed out. Please try again."))
            /\ lateWrites' = Late({"error"})
            /\ ended' = TRUE
    /\ UNCHANGED <<chatVars, statusCode, closed, requestDone, referencedDatasheets, stream, fullText,
                   chunkCount, searchVars, nonHandlerVars>>

\* the response's close event after it has ended: cleanup()
ResClose ==
    /\ ended /\ (~requestDone \/ globalTimer = "armed")
    /\ requestDone' = TRUE
    /\ globalTimer' = Cleared(globalTimer)
    /\ UNCHANGED <<chatVars, events, statusCode, closed, lateWrites, ended, referencedDatasheets,
                   stream, fullText, chunkCount, searchVars, nonHandlerVars>>

\* the completion stream yields nothing more: it neither ends nor fails, and
\* the for await of the chunk loop stays suspended
StreamStalls ==
    /\ h_pc = "streaming" /\ stream = "open"
    /\ stream' = "stalled"
    /\ UNCHANGED <<chatVars, events, statusCode, closed, lateWrites, ended, requestDone,
                   globalTimer, referencedDatasheets, fullText, chunkCount,
                   searchVars, nonHandlerVars>>

\* the heartbeat interval (armed with the global timer, cleared by cleanup()
\* alone) fires: a keepalive comment is written unless requestDone
Heartbeat ==
    /\ globalTimer # "none" /\ ~requestDone
    /\ lateWrites' = Late({"keepalive"})
    /\ UNCHANGED <<chatVars, events, statusCode, closed, ended, requestDone, globalTimer,
                   referencedDatasheets, stream, fullText, chunkCount,
                   searchVars, nonHandlerVars>>

\* the client closes the connection before the response has ended: the
\* response's close event runs cleanup()
ClientClose ==
    /\ statusCode = 200 /\ ~ended /\ ~closed
    /\ closed' = TRUE
    /\ requestDone' = TRUE
    /\ globalTimer' = Cleared(globalTimer)
    /\ UNCHANGED <<chatVars, events, statusCode, lateWrites, ended, referencedDatasheets,
                   stream, fullText, chunkCount, searchVars, nonHandlerVars>>

NextStream ==
    \/ NextChat
    \/ AssembleContext
    \/ StatsReturn
    \/ GenerateSettle
    \/ \E how \in {"failed", "timeout"} : GenerateFail(how)
    \/ ChunkArrives
    \/ StreamEnds
    \/ StreamIterError
    \/ StreamStalls
    \/ GlobalTimeout
    \/ ResClose

StreamSpec == InitStream /\ [][NextStream]_vars

\* the handler with its heartbeat and a client that can go away
NextWire ==
    \/ NextStream
    \/ Heartbeat
    \/ ClientClose

WireSpec == InitStream /\ [][NextWire]_vars

\* timers fire: the global timer's callback runs once it is due
StreamFairSpec == StreamSpec /\ WF_vars(GlobalTimeout) /\ WF_vars(ChatReceive)

(***************************************************************************)
(* getKnowledgeBaseStats called by concurrent requests.  Each caller is a  *)
(* call in progress; time passes in ticks.                                 *)
(***************************************************************************)
KB_STATS_CACHE_TTL == 600000

DefaultTotalProducts == 144

MaxCallers == 2

TickMs == 300000

MaxTicks == 3

\* a shorter stretch of time, passing while refreshes are in flight
StepMs == 1000

MaxSteps == 2

\* the timers the three store queries of a refresh are raced against
StatsTimeout == 5000

Callers == 1..MaxCallers

StatsFreshNoTtl(cache, lastUpdated, t) == cache.set

\* kbStatsCache && (now - kbStatsLastUpdated) < KB_STATS_CACHE_TTL
StatsFresh(cache, lastUpdated, t) == cache.set /\ (t - lastUpdated) < KB_STATS_CACHE_TTL

\* totalProducts: countResult.count || 144
StatsOf(n) == [set |-> TRUE, totalProducts |-> IF n = 0 THEN DefaultTotalProducts ELSE n]

NoCaller == [pc |-> "idle", at |-> 0, result |-> NoStats]

InitStats ==
    /\ storeSize \in {0, SmallStore}
    /\ supabaseOk \in BOOLEAN
    /\ IdleSearchCall
    /\ kbStatsCache = NoStats
    /\ kbStatsLastUpdated = 0
    /\ now = 0
    /\ callers = [c \in Callers |-> NoCaller]
    /\ IdleFilter /\ IdleChat /\ IdleHelper /\ IdleStream /\ IdleOthers

\* a request calls getKnowledgeBaseStats: without a store client it returns
\* empty statistics, with a fresh cache the cache, else it starts the three
\* store queries and awaits them
StatsCall(c) ==
    /\ callers[c].pc \in {"idle", "returned"}
    /\ callers' =
         [callers EXCEPT ![c] =
            IF ~supabaseOk THEN [pc |-> "returned", at |-> now, result |-> StatsOf(0) ]
            ELSE IF StatsFresh(kbStatsCache, kbStatsLastUpdated, now)
                 THEN [pc |-> "returned", at |-> now, result |-> kbStatsCache]
                 ELSE [pc |-> "refreshing", at |-> now, result |-> NoStats]]
    /\ UNCHANGED <<kbStatsCache, kbStatsLastUpdated, now, searchVars, nonStatsVars>>

StatsSettleStampsNow(c) ==
    /\ callers[c].pc = "refreshing"
    /\ kbStatsCache' = StatsOf(storeSize)
    /\ kbStatsLastUpdated' = now
    /\ callers' = [callers EXCEPT ![c] = [@ EXCEPT !.pc = "returned", !.result = StatsOf(storeSize)]]
    /\ UNCHANGED <<now, searchVars, nonStatsVars>>

\* the three queries of caller c have settled: the cache is overwritten and
\* stamped with the time of c's call
StatsSettle(c) ==
    /\ callers[c].pc = "refreshing"
    /\ kbStatsCache' = StatsOf(storeSize)
    /\ kbStatsLastUpdated' = callers[c].at
    /\ callers' = [callers EXCEPT ![c] = [@ EXCEPT !.pc = "returned", !.result = StatsOf(storeSize)]]
    /\ UNCHANGED <<now, searchVars, nonStatsVars>>

\* one of the queries of caller c is rejected or cut off by its 5 s timer:
\* the catch returns the cache, or default statistics if there is none
StatsFail(c) ==
    /\ callers[c].pc = "refreshing"
    /\ callers' = [callers EXCEPT ![c] =
                      [@ EXCEPT !.pc = "returned",
                                !.result = IF kbStatsCache.set THEN kbStatsCache ELSE StatsOf(0)]]
    /\ UNCHANGED <<kbStatsCache, kbStatsLastUpdated, now, searchVars, nonStatsVars>>

\* time passes, by a step or by a tick; a refresh in flight is settled or
\* cut off by its timers before they are due
Tick(d) ==
    /\ IF d = StepMs THEN (now % TickMs) + StepMs <= MaxSteps * StepMs
       ELSE now + TickMs <= MaxTicks * TickMs + MaxSteps * StepMs
    /\ \A c \in Callers : callers[c].pc = "refreshing" => now + d - callers[c].at < StatsTimeout
    /\ now' = now + d
    /\ UNCHANGED <<kbStatsCache, kbStatsLastUpdated, callers, searchVars, nonStatsVars>>

NextStats ==
    \/ \E c \in Callers : StatsCall(c)
    \/ \E c \in Callers : StatsSettle(c)
    \/ \E c \in Callers : StatsFail(c)
    \/ \E d \in {StepMs, TickMs} : Tick(d)

StatsSpec == InitStats /\ [][NextStats]_vars

(***************************************************************************)
(* expandQuery and decomposeEnquiry as a process: one call of one helper.  *)
(* The completion call is raced against a timer; a call that never settles *)
(* stays pending until the timer cuts it off.                              *)
(***************************************************************************)
LongEnquiry ==
    "We are fitting out an offshore platform and need storage for life jackets near the muster stations and cabinets for breathing apparatus sets and hoses"

ShorterEnquiry ==
    "We are fitting out an offshore platform and need storage for life jackets near the muster stations and cabinets for breathing apparatus set and hoses"

HelperQueries ==
    {"jb17", "what is the ip56 rating", "fire_hose cabinet", "life-jacket storage",
     "list of cabinets", "What classes are there", "product category overview",
     "hose", "fire hose", "cabinets for hoses", LongEnquiry, ShorterEnquiry}

\* what the completion call can settle with
Completions ==
    {GenResult(TRUE, "  \"fire hose cabinet storage\"\n"),
     GenResult(TRUE, "Life jacket cabinets\n  SCBA storage IP56 \nabc\n"),
     GenResult(TRUE, "ok\n \n"),
     GenResult(FALSE, "Life jacket cabinets\n  SCBA storage IP56 \nabc\n"),
     GenRejected}

\* what the helpers derive from the query alone
HelperFacts ==
    [q \in HelperQueries |->
        [bypass |-> ExpandBypass(q), expandable |-> Expandable(q),
         short |-> Len(q) < MinDecomposeLength]]

InitHelper ==
    /\ fn \in {"expandQuery", "decomposeEnquiry"}
    /\ arg \in HelperQueries
    /\ argHistory \in IF fn = "expandQuery" THEN Histories ELSE {<<>>}
    /\ aiReady \in BOOLEAN
    /\ fn_pc = "called"
    /\ gen = NoGen /\ genCalls = 0 /\ expanded = "" /\ phrases = <<>>
    /\ IdleSearch /\ IdleFilter /\ IdleChat
    /\ IdleStream /\ IdleOthers
    /\ IdleStats

\* expandQuery up to its await: the bypass, the length guard, getAI()
ExpandCall ==
    /\ fn = "expandQuery" /\ fn_pc = "called"
    /\ IF HelperFacts[arg].bypass \/ ~HelperFacts[arg].expandable \/ ~aiReady
       THEN /\ expanded' = arg
            /\ fn_pc' = "returned"
            /\ UNCHANGED <<gen, genCalls>>
       ELSE /\ gen' = GenPending
            /\ genCalls' = genCalls + 1
            /\ fn_pc' = "awaiting"
            /\ UNCHANGED expanded
    /\ UNCHANGED <<fn, arg, argHistory, aiReady, phrases, nonHelperVars>>

\* the completion call settles with c before the 5 s timer
ExpandSettle(c) ==
    /\ fn = "expandQuery" /\ fn_pc = "awaiting" /\ gen.st = "pending"
    /\ gen' = c
    /\ LET r == Fallback(ExpandTry(c), arg)
       IN  /\ fn_pc' = IF r.raised THEN "raised" ELSE "returned"
           /\ expanded' = r.value
    /\ UNCHANGED <<fn, arg, argHistory, aiReady, genCalls, phrases, nonHelperVars>>

\* the 5 s timer rejects the race first
ExpandTimeout ==
    /\ fn = "expandQuery" /\ fn_pc = "awaiting" /\ gen.st = "pending"
    /\ gen' = GenTimeout
    /\ LET r == Fallback(ExpandTry(GenTimeout), arg)
       IN  /\ fn_pc' = IF r.raised THEN "raised" ELSE "returned"
           /\ expanded' = r.value
    /\ UNCHANGED <<fn, arg, argHistory, aiReady, genCalls, phrases, nonHelperVars>>

\* decomposeEnquiry up to its await: the length guard, getAI()
DecomposeCall ==
    /\ fn = "decomposeEnquiry" /\ fn_pc = "called"
    /\ IF HelperFacts[arg].short \/ ~aiReady
       THEN /\ phrases' = <<arg>>
            /\ fn_pc' = "returned"
            /\ UNCHANGED <<gen, genCalls>>
       ELSE /\ gen' = GenPending
            /\ genCalls' = genCalls + 1
            /\ fn_pc' = "awaiting"
            /\ UNCHANGED phrases
    /\ UNCHANGED <<fn, arg, argHistory, aiReady, expanded, nonHelperVars>>

\* the completion call settles with c before the 10 s timer
DecomposeSettle(c) ==
    /\ fn = "decomposeEnquiry" /\ fn_pc = "awaiting" /\ gen.st = "pending"
    /\ gen' = c
    /\ LET r == Fallback(DecomposeTry(arg, c), <<arg>>)
       IN  /\ fn_pc' = IF r.raised THEN "raised" ELSE "returned"
           /\ phrases' = r.value
    /\ UNCHANGED <<fn, arg, argHistory, aiReady, genCalls, expanded, nonHelperVars>>

\* the 10 s timer rejects the race first
DecomposeTimeout ==
    /\ fn = "decomposeEnquiry" /\ fn_pc = "awaiting" /\ gen.st = "pending"
    /\ gen' = GenTimeout
    /\ LET r == Fallback(DecomposeTry(arg, GenTimeout), <<arg>>)
       IN  /\ fn_pc' = IF r.raised THEN "raised" ELSE "returned"
           /\ phrases' = r.value
    /\ UNCHANGED <<fn, arg, argHistory, aiReady, genCalls, expanded, nonHelperVars>>

NextHelper ==
    \/ ExpandCall
    \/ \E c \in Completions : ExpandSettle(c)
    \/ ExpandTimeout
    \/ DecomposeCall
    \/ \E c \in Completions : DecomposeSettle(c)
    \/ DecomposeTimeout

HelperSpec == InitHelper /\ [][NextHelper]_vars

\* the helpers' own steps and their timers always run; whether the
\* completion call ever settles is up to the service
HelperFairSpec ==
    /\ HelperSpec
    /\ WF_vars(ExpandCall) /\ WF_vars(ExpandTimeout)
    /\ WF_vars(DecomposeCall) /\ WF_vars(DecomposeTimeout)

(***************************************************************************)
(* POST /api/chat/stream for a long enquiry (query.length > 200): the      *)
(* phrases of decomposeEnquiry are searched with searchProducts(phrase, 5) *)
(* and the lists are merged.  The calls run concurrently under Promise.all *)
(* and read nothing but the store, so the lists they return are those of   *)
(* the calls made one after the other, as here.                            *)
(***************************************************************************)
DecomposeThreshold == 200

EnquiryMatchCount == 5

EnquiryCap == 15

\* an enquiry of more than 200 characters
LongQuery == LongEnquiry \o ", plus racks for the fire hoses on the lower decks and the pump room"

\* the phrase lists decomposeEnquiry returns for it
EnquiryTargets == {<<"hose rack", "RS140 rack">>, <<"RS140 rack", "hose rack">>}

\* the merge loop keeping the highest similarity, as searchProducts does
MergeSeenKeepHighest(merged, arr) == MergeBatch(merged, arr)

RECURSIVE MergeSeen(_, _)
\* for (const res of arr) if (!seenIds.has(res.id)) { searchResults.push(res); seenIds.add(res.id) }
MergeSeen(merged, arr) ==
    IF arr = <<>> THEN merged
    ELSE MergeSeen(IF HasId(merged, Head(arr).id) THEN merged ELSE Append(merged, Head(arr)),
                   Tail(arr))

RECURSIVE MergeArrays(_, _)
\* for (const arr of resultsArrays) ...
MergeArrays(merged, arrays) ==
    IF arrays = <<>> THEN merged
    ELSE MergeArrays(MergeSeen(merged, Head(arrays)), Tail(arrays))

InitEnquiry ==
    /\ storeSize = SmallStore
    /\ supabaseOk \in BOOLEAN
    /\ IdleSearchCall
    /\ query = LongQuery
    /\ history = <<>>
    /\ h_pc = "decompose"
    /\ path = "standard"
    /\ searchResults = <<>>
    /\ primaryResults = <<>>
    /\ passes = NoPasses
    /\ failedLookups = {}
    /\ IdleEnquiry /\ IdleClient /\ IdleSession
    /\ IdleFilter /\ IdleHelper /\ IdleStream /\ IdleStats

\* decomposeEnquiry returns its phrases and the first is searched
EnquiryDecomposed(targets) ==
    /\ h_pc = "decompose" /\ Len(query) > DecomposeThreshold
    /\ searchTargets' = targets
    /\ question' = targets[1]
    /\ matchCount' = EnquiryMatchCount
    /\ sp_pc' = "init"
    /\ h_pc' = "enquirySearch"
    /\ UNCHANGED <<query, history, path, searchResults, primaryResults, passes, failedLookups,
                   storeSize, supabaseOk, partNumbers, fuzzyTerms, kw, fz, emb, rpc, sp_result,
                   resultsArrays, nonEnquiryVars>>

\* a searchProducts call has returned: the next phrase is searched or, after
\* the last, Promise.all resolves and the lists are merged, sorted and cut
EnquirySearchReturn ==
    /\ h_pc = "enquirySearch" /\ sp_pc = "returned"
    /\ resultsArrays' = Append(resultsArrays, sp_result)
    /\ partNumbers' = <<>> /\ fuzzyTerms' = <<>>
    /\ kw' = <<>> /\ fz' = NoCall /\ emb' = "none" /\ rpc' = NoCall /\ sp_result' = <<>>
    /\ IF Len(resultsArrays') < Len(searchTargets)
       THEN /\ question' = searchTargets[Len(resultsArrays') + 1]
            /\ sp_pc' = "init"
            /\ UNCHANGED <<matchCount, searchResults, h_pc>>
       ELSE /\ question' = "" /\ matchCount' = 0 /\ sp_pc' = "idle"
            /\ searchResults' = Slice(SortBySimilarity(MergeArrays(searchResults, resultsArrays')),
                                      EnquiryCap)
            /\ h_pc' = "specValue"
    /\ UNCHANGED <<query, history, path, primaryResults, passes, failedLookups,
                   storeSize, supabaseOk, searchTargets, nonEnquiryVars>>

NextEnquiry ==
    \/ \E targets \in EnquiryTargets : EnquiryDecomposed(targets)
    \/ EnquirySearchReturn
    \/ SearchStart
    \/ \E i \in 1..Len(kw), ord \in RowOrders : KeywordSettle(i, ord)
    \/ \E i \in 1..Len(kw) : KeywordDbError(i)
    \/ \E i \in 1..Len(kw) : KeywordHang(i)
    \/ \E i \in 1..Len(kw) : KeywordTimeout(i)
    \/ \E ord \in RowOrders : FuzzySettle(ord)
    \/ FuzzyDbError
    \/ FuzzyHang
    \/ FuzzyTimeout
    \/ EmbedSettle
    \/ EmbedFail
    \/ EmbedHang
    \/ EmbedTimeout
    \/ \E n \in RpcCounts : RpcSettle(n)
    \/ RpcDbError
    \/ RpcThrow
    \/ RpcHang
    \/ SearchReturn

EnquirySpec == InitEnquiry /\ [][NextEnquiry]_vars

(***************************************************************************)
(* The client: getSelectionResponseStream reading the response body.  The  *)
(* body is the text the server wrote; it arrives in reads that cut it      *)
(* anywhere.  The client's abort timers are left out.                      *)
(***************************************************************************)
RECURSIVE JsonEscape(_)
\* the characters of a string as JSON.stringify writes them
JsonEscape(s) ==
    IF Len(s) <= 1
    THEN CASE s = "\"" -> "\\\""
           [] s = "\\" -> "\\\\"
           [] s = "\n" -> "\\n"
           [] OTHER -> s
    ELSE JsonEscape(SubSeq(s, 1, Len(s) \div 2)) \o JsonEscape(SubSeq(s, Len(s) \div 2 + 1, Len(s)))

JsonString(s) == "\"" \o JsonEscape(s) \o "\""

JsonDatasheet(d) ==
    "{\"filename\":" \o JsonString(d.filename) \o ",\"productCode\":" \o JsonString(d.productCode) \o "}"

RECURSIVE JsonDatasheets(_)
JsonDatasheets(ds) ==
    IF ds = <<>> THEN ""
    ELSE JsonDatasheet(Head(ds)) \o (IF Len(ds) > 1 THEN "," ELSE "") \o JsonDatasheets(Tail(ds))

\* JSON.stringify of the object the server writes for an event
SseData(ev) ==
    "{\"type\":" \o JsonString(ev.type) \o
    (CASE ev.type = "status" -> ",\"message\":" \o JsonString(ev.text)
       [] ev.type = "error" -> ",\"error\":" \o JsonString(ev.text)
       [] ev.type = "chunk" -> ",\"text\":" \o JsonString(ev.text)
       [] ev.type = "datasheets" -> ",\"datasheets\":[" \o JsonDatasheets(ev.datasheets) \o "]"
       [] OTHER -> ",\"text\":" \o JsonString(ev.text)
                     \o ",\"datasheets\":[" \o JsonDatasheets(ev.datasheets) \o "]") \o "}"

\* res.write(`data: ${JSON.stringify(...)}\n\n`)
SseLine(ev) == "data: " \o SseData(ev) \o "\n\n"

Keepalive == ": keepalive\n\n"

\* an error event whose error is undefined: JSON.stringify leaves the key out
SseErrorUndefined == "data: {\"type\":\"error\"}\n\n"

ParseFail == [ok |-> FALSE, val |-> "", next |-> 0]

\* the character an escape sequence stands for ("" if it is none)
Unescaped(e) ==
    CASE e = "n" -> "\n"
      [] e = "\"" -> "\""
      [] e = "\\" -> "\\"
      [] OTHER -> ""

RECURSIVE ScanString(_, _, _)
RECURSIVE ScanFrom(_, _, _, _)
\* a string literal from the offset after its opening quote; acc holds the
\* characters read before offset j
ScanString(s, j, acc) ==
    LET special == {a \in j..(Len(s) - 1) : SubSeq(s, a + 1, a + 1) \in {"\"", "\\", "\n"}}
    IN  IF special = {} THEN ParseFail ELSE ScanFrom(s, j, acc, SetMin(special))

\* p is the first offset from j on that holds a quote, a backslash or a
\* newline
ScanFrom(s, j, acc, p) ==
    CASE CharAt(s, p) = "\"" -> [ok |-> TRUE, val |-> acc \o SubSeq(s, j + 1, p), next |-> p + 1]
      [] CharAt(s, p) = "\n" -> ParseFail
      [] OTHER -> IF Unescaped(CharAt(s, p + 1)) = "" THEN ParseFail
                  ELSE ScanString(s, p + 2,
                                  acc \o SubSeq(s, j + 1, p) \o Unescaped(CharAt(s, p + 1)))

RECURSIVE ParseValue(_, _)
RECURSIVE ParseMembers(_, _, _)
RECURSIVE ParseElements(_, _, _)
\* a JSON value at offset i: a string, an object or an array, written
\* without white space (as JSON.stringify writes them)
ParseValue(s, i) ==
    LET c == CharAt(s, i)
    IN  CASE c = "\"" -> ScanString(s, i + 1, "")
          [] c = "{" -> ParseMembers(s, i + 1, <<>>)
          [] c = "[" -> IF CharAt(s, i + 1) = "]"
                        THEN [ok |-> TRUE, val |-> <<>>, next |-> i + 2]
                        ELSE ParseElements(s, i + 1, <<>>)
          [] OTHER -> ParseFail

\* the members of an object; seen holds the <<key, value>> pairs so far
ParseMembers(s, i, seen) ==
    IF CharAt(s, i) # "\"" THEN ParseFail
    ELSE LET k == ScanString(s, i + 1, "")
         IN  IF ~k.ok \/ CharAt(s, k.next) # ":" THEN ParseFail
             ELSE LET v == ParseValue(s, k.next + 1)
                  IN  IF ~v.ok THEN ParseFail
                      ELSE LET all == Append(seen, <<k.val, v.val>>)
                               c == CharAt(s, v.next)
                           IN  CASE c = "," -> ParseMembers(s, v.next + 1, all)
                                 [] c = "}" ->
                                      [ok |-> TRUE,
                                       val |-> [key \in {all[n][1] : n \in 1..Len(all)} |->
                                                  all[SetMax({n \in 1..Len(all) : all[n][1] = key})][2]],
                                       next |-> v.next + 1]
                                 [] OTHER -> ParseFail

ParseElements(s, i, seen) ==
    LET v == ParseValue(s, i)
    IN  IF ~v.ok THEN ParseFail
        ELSE LET c == CharAt(s, v.next)
             IN  CASE c = "," -> ParseElements(s, v.next + 1, Append(seen, v.val))
                   [] c = "]" -> [ok |-> TRUE, val |-> Append(seen, v.val), next |-> v.next + 1]
                   [] OTHER -> ParseFail

\* JSON.parse(text): the value, or a SyntaxError (its message names JSON)
JsonParse(text) ==
    LET r == ParseValue(text, 0)
    IN  IF r.ok /\ r.next = Len(text) THEN r ELSE ParseFail

RECURSIVE SplitNewline(_)
\* s.split('\n')
SplitNewline(s) ==
    LET at == {k \in 1..Len(s) : SubSeq(s, k, k) = "\n"}
    IN  IF at = {} THEN <<s>>
        ELSE <<SubSeq(s, 1, SetMin(at) - 1)>> \o SplitNewline(SubSeq(s, SetMin(at) + 1, Len(s)))

\* data.key || otherwise, for a string
StringOr(data, key, otherwise) ==
    IF key \in DOMAIN data /\ data[key] # "" THEN data[key] ELSE otherwise

\* data.key || otherwise, for an array (an empty array is truthy)
ArrayOr(data, key, otherwise) == IF key \in DOMAIN data THEN data[key] ELSE otherwise

\* the body of the loop over the lines, for one line; nothing runs after a
\* throw
ProcessLine(st, line) ==
    IF st.thrown \/ ~StartsWith(Trim(line), "data: ") THEN st
    ELSE LET r == JsonParse(SubSeq(Trim(line), 7, Len(Trim(line))))
         IN  IF ~r.ok THEN st
             ELSE LET data == r.val
                      type == StringOr(data, "type", "")
                  IN  CASE type = "datasheets" ->
                             [st EXCEPT !.referencedDatasheets = ArrayOr(data, "datasheets", <<>>)]
                        [] type = "chunk" ->
                             [st EXCEPT !.fullText = StringOr(data, "text", ""),
                                        !.calls = Append(@, <<StringOr(data, "text", ""),
                                                              st.referencedDatasheets>>)]
                        [] type = "done" ->
                             LET t == StringOr(data, "text", st.fullText)
                                 ds == ArrayOr(data, "datasheets", st.referencedDatasheets)
                             IN  [st EXCEPT !.fullText = t, !.referencedDatasheets = ds,
                                            !.calls = Append(@, <<t, ds>>)]
                        [] type = "error" ->
                             LET message == StringOr(data, "error", "")
                             IN  IF message # "" /\ ~Includes(message, "JSON")
                                 THEN [st EXCEPT !.thrown = TRUE, !.message = message]
                                 ELSE st
                        [] OTHER -> st

RECURSIVE ProcessLines(_, _)
\* for (const line of lines) ...
ProcessLines(st, lines) ==
    IF lines = <<>> THEN st
    ELSE IF Len(lines) = 1 THEN ProcessLine(st, lines[1])
    ELSE LET half == Len(lines) \div 2
             first == ProcessLines(st, SubSeq(lines, 1, half))
         IN  IF first.thrown THEN first
             ELSE ProcessLines(first, SubSeq(lines, half + 1, Len(lines)))

\* lineBuffer = lines.pop() || '', without keeping the popped line
PartialLineDropped(lines) == ""

\* lineBuffer = lines.pop() || ''
PartialLine(lines) == lines[Len(lines)]

\* the lines left after lines.pop()
WholeLines(lines) == SubSeq(lines, 1, Len(lines) - 1)

\* the bodies the server can write
Bodies ==
    {SseLine(Status("Searching Knowledge Base...")) \o Keepalive \o SseLine(Event("chunk", "Hi", <<>>))
        \o SseLine(Event("chunk", "Hi **JB17**", <<>>))
        \o SseLine(Event("done", "Hi **JB17**", <<Datasheet("JB17")>>)),
     SseLine(Event("chunk", "Hi", <<>>)) \o SseLine(ErrorEvent("Request timed out. Please try again.")),
     SseLine(Event("chunk", "Hi", <<>>))
        \o SseLine(ErrorEvent("AI Advisor is busy. (Error: Unexpected token < in JSON at position 0)")),
     SseLine(Status("Analyzing query...")) \o SseLine(ErrorEvent("")),
     SseLine(Event("chunk", "Hi", <<>>)) \o SseErrorUndefined,
     SseLine(Event("datasheets", "", <<Datasheet("RS140")>>))
        \o SseLine(Event("chunk", "He said \"no\"\nok", <<>>))
        \o "data: {\"type\":\"chunk\",\"text\":\"He\n\n"
        \o SseLine(Event("done", "", <<>>))}

InitClient ==
    /\ body \in Bodies
    /\ received = 0
    /\ lineBuffer = ""
    /\ client = NewClient
    /\ c_pc = "reading"
    /\ IdleSearch /\ IdleFilter /\ IdleChat /\ IdleHelper /\ IdleStream /\ IdleStats
    /\ IdleEnquiry /\ IdleSession

\* reader.read() delivers the next n characters: they are added to the line
\* buffer, the finished lines are processed and the unfinished one is kept;
\* an error rethrown by the catch rejects the call
ClientReadBytes(n) ==
    /\ c_pc = "reading"
    /\ n \in 1..(Len(body) - received)
    /\ LET lines == SplitNewline(lineBuffer \o SubSeq(body, received + 1, received + n))
           st == ProcessLines(client, WholeLines(lines))
       IN  /\ client' = st
           /\ lineBuffer' = PartialLine(lines)
           /\ c_pc' = IF st.thrown THEN "rejected" ELSE "reading"
    /\ received' = received + n
    /\ UNCHANGED <<body, nonClientVars>>

\* reader.read() reports done: the loop is left and the call resolves with
\* { text: fullText, referencedDatasheets }
ClientEnd ==
    /\ c_pc = "reading" /\ received = Len(body)
    /\ c_pc' = "resolved"
    /\ UNCHANGED <<body, received, lineBuffer, client, nonClientVars>>

NextClient ==
    \/ \E n \in 1..Len(body) : ClientReadBytes(n)
    \/ ClientEnd

ClientSpec == InitClient /\ [][NextClient]_vars

(***************************************************************************)
(* The chat UI's session state (App): the session list and the active      *)
(* session id, changed by the sidebar's new-chat, select and delete         *)
(* buttons.  Each click is handled, and the state re-rendered, before the  *)
(* next; select and delete are offered for the sessions listed.            *)
(***************************************************************************)
MaxSessions == 3

FirstClock == 2

MaxClock == 4

\* `session-${Date.now()}`
SessionId(t) == "session-" \o ToString(t)

Session(id, title) == [id |-> id, title |-> title]

\* the session the list is created with
FirstSession == Session("session-1", "New Selection")

\* the session that replaces the last one deleted
DefaultSession == Session("session-default", "New Selection")

SessionIds(list) == {list[k].id : k \in 1..Len(list)}

InitSession ==
    /\ sessions = <<FirstSession>>
    /\ activeSessionId = "session-1"
    /\ uiClock = FirstClock
    /\ IdleSearch /\ IdleFilter /\ IdleChat /\ IdleHelper /\ IdleStream /\ IdleStats
    /\ IdleEnquiry /\ IdleClient

\* handleNewChat
NewChat ==
    /\ Len(sessions) < MaxSessions
    /\ sessions' = <<Session(SessionId(uiClock), "New Chat " \o ToString(Len(sessions) + 1))>>
                       \o sessions
    /\ activeSessionId' = SessionId(uiClock)
    /\ UNCHANGED <<uiClock, nonSessionVars>>

\* handleSelectSession
SelectSession(id) ==
    /\ id \in SessionIds(sessions)
    /\ activeSessionId' = id
    /\ UNCHANGED <<sessions, uiClock, nonSessionVars>>

DeleteSessionKeepsActive(id) ==
    /\ id \in SessionIds(sessions)
    /\ LET remaining == SelectSeq(sessions, LAMBDA x : x.id # id)
       IN  sessions' = IF remaining = <<>> THEN <<DefaultSession>> ELSE remaining
    /\ UNCHANGED <<activeSessionId, uiClock, nonSessionVars>>

\* handleDeleteSession
DeleteSession(id) ==
    /\ id \in SessionIds(sessions)
    /\ LET remaining == SelectSeq(sessions, LAMBDA x : x.id # id)
       IN  /\ sessions' = IF remaining = <<>> THEN <<DefaultSession>> ELSE remaining
           /\ activeSessionId' =
                 IF activeSessionId = id
                 THEN IF remaining # <<>> THEN remaining[1].id ELSE "session-default"
                 ELSE activeSessionId
    /\ UNCHANGED <<uiClock, nonSessionVars>>

\* a millisecond passes
ClockTick ==
    /\ uiClock # 0 /\ uiClock < MaxClock
    /\ uiClock' = uiClock + 1
    /\ UNCHANGED <<sessions, activeSessionId, nonSessionVars>>

NextSession ==
    \/ NewChat
    \/ \E id \in SessionIds(sessions) : SelectSession(id)
    \/ \E id \in SessionIds(sessions) : DeleteSession(id)
    \/ ClockTick

SessionSpec == InitSession /\ [][NextSession]_vars

(***************************************************************************)
(* Properties of searchProducts                                            *)
(***************************************************************************)
Returned == sp_pc = "returned"

RowSet(c) == IF c.st = "ok" THEN {c.rows[k] : k \in 1..Len(c.rows)} ELSE {}

KeywordIds == UNION {RowSet(kw[i]) : i \in 1..Len(kw)}

FuzzyIds == RowSet(fz)

VectorIds == IF emb = "ok" THEN RowSet(rpc) ELSE {}

\* the ids found by the strategies that succeeded
FoundIds == KeywordIds \cup FuzzyIds \cup VectorIds

SomeStrategyFailed ==
    \/ \E i \in 1..Len(kw) : kw[i].st \in {"dberror", "timeout"}
    \/ fz.st \in {"dberror", "timeout"}
    \/ emb \in {"error", "timeout"}
    \/ rpc.st \in {"dberror", "rejected"}


\* C1 as stated: searchProducts returns a list that contains the results of
\* every strategy that succeeded, whichever strategies failed.
C1_ContainsEverySuccessfulResult == Returned => FoundIds \subseteq Ids(sp_result)

\* C1, amended: whichever strategies fail, searchProducts returns a list, every
\* entry of which was found by a strategy that succeeded, and which holds
\* min(matchCount, number of distinct ids found) entries; so it contains every
\* result of every successful strategy whenever those are at most matchCount.
C1_ReturnsSuccessfulResultsUpToMatchCount ==
    Returned =>
        /\ Ids(sp_result) \subseteq FoundIds
        /\ Len(sp_result) = Min(matchCount, Cardinality(FoundIds))
        /\ Cardinality(FoundIds) <= matchCount => FoundIds \subseteq Ids(sp_result)

\* a strategy failed, another succeeded, and its results were returned
C1_Witness == Returned /\ SomeStrategyFailed /\ sp_result # <<>> /\ emb = "timeout"

\* C2: the list searchProducts returns holds no id twice.
C2_NoDuplicateIds ==
    \A i, j \in 1..Len(sp_result) : sp_result[i].id = sp_result[j].id => i = j

\* one record came back from two keyword queries, the fuzzy query and the
\* vector query, and is in the returned list
C2_Witness ==
    /\ Returned /\ Len(kw) = 2
    /\ \E id \in Ids(sp_result) :
        id \in RowSet(kw[1]) \cap RowSet(kw[2]) \cap FuzzyIds \cap VectorIds

\* C3: a product found by a keyword query and by the vector query is returned
\* with similarity 2.0 and type keyword.
C3_KeywordPrecedence ==
    Returned =>
        \A k \in 1..Len(sp_result) :
            sp_result[k].id \in KeywordIds \cap VectorIds =>
                sp_result[k].similarity = KeywordSimilarity /\ sp_result[k].type = "keyword"

C3_Witness == Returned /\ \E id \in Ids(sp_result) : id \in KeywordIds \cap VectorIds

\* what the merge loop built before the sort and the cap
Merged == MergeAll(<<>>, PromiseAll(SearchPromises).value)

\* C4: the returned list is in non-increasing order of similarity, has at
\* most matchCount entries, and nothing cut off ranks above anything kept.
C4_SortedAndCapped ==
    Returned /\ supabaseOk =>
        /\ \A i, j \in 1..Len(sp_result) :
               i < j => sp_result[i].similarity >= sp_result[j].similarity
        /\ Len(sp_result) <= matchCount
        /\ \A m \in 1..Len(Merged) : \A k \in 1..Len(sp_result) :
               Merged[m].id \notin Ids(sp_result) =>
                   Merged[m].similarity <= sp_result[k].similarity

\* the cap cut entries off a list with more than one similarity tier
C4_Witness ==
    /\ Returned /\ supabaseOk /\ Len(Merged) > matchCount
    /\ \E m \in 1..Len(Merged) : Merged[m].similarity < sp_result[1].similarity
    /\ sp_result[Len(sp_result)].similarity < sp_result[1].similarity

\* nothing more will happen to the calls: none can still settle, and every
\* timer raced against a call has fired or lost its race
CallsQuiescent ==
    /\ \A i \in 1..Len(kw) : ~InFlight(kw[i])
    /\ ~InFlight(fz)
    /\ emb \notin {"pending", "hung"}
    /\ rpc.st # "pending"

\* C5 as stated: every external call of searchProducts is bounded by a timer,
\* so once no call can settle any more and every timer has fired, Promise.all
\* has settled and searchProducts returns, even if a call never settles.
C5_ReturnsThoughACallNeverSettles ==
    sp_pc = "awaiting" /\ CallsQuiescent => PromiseAll(SearchPromises).state # "waiting"

\* the same for the calls that are raced against a timer: a keyword, fuzzy or
\* embedding call that never settles does not keep searchProducts waiting
C5_RacedCallsAreCutOff ==
    sp_pc = "awaiting" /\ CallsQuiescent /\ rpc.st # "hung"
        => PromiseAll(SearchPromises).state # "waiting"

(***************************************************************************)
(* Properties of the chat stream handler's result list                     *)
(***************************************************************************)
SupplementalStages == {"specValue", "category", "feature", "history"}

\* a supplemental pass of the standard path ends (it ran or was skipped)
PassStep == path = "standard" /\ h_pc \in SupplementalStages /\ h_pc' # h_pc

\* the bound a pass cuts the list to; the history carry-over has none
PassCap(stage) ==
    CASE stage = "specValue" -> SpecFilterCap
      [] stage = "category"  -> CategoryCap
      [] stage = "feature"   -> FeatureCap
      [] OTHER               -> -1

\* C6: in the standard path every product that is in the result list before
\* a supplemental pass is still in it after the pass, and the pass only adds
\* products whose id was not already present.
C6_PassesAreAdditive ==
    [][PassStep =>
          /\ \A k \in 1..Len(searchResults) : HasId(searchResults', searchResults[k].id)
          /\ \A k \in 1..Len(searchResults') :
                 \/ searchResults'[k] \in SeqToSet(searchResults)
                 \/ ~HasId(searchResults, searchResults'[k].id)]_vars

\* C6: a pass only adds products whose id was not already present and leaves
\* the entries it found unchanged; a product that was in the list before the
\* pass is in it after the pass unless the list is then at the pass's bound
\* (25 after spec-value, 30 after category and feature) and every entry kept
\* has at least the similarity of the one dropped; the history carry-over
\* only appends.
C6_AdditiveUpToTheCap ==
    [][PassStep =>
          /\ \A k \in 1..Len(searchResults') :
                 \/ searchResults'[k] \in SeqToSet(searchResults)
                 \/ ~HasId(searchResults, searchResults'[k].id)
          /\ \A k \in 1..Len(searchResults) :
                 \/ searchResults[k] \in SeqToSet(searchResults')
                 \/ /\ Len(searchResults') = PassCap(h_pc)
                    /\ \A j \in 1..Len(searchResults') :
                           searchResults'[j].similarity >= searchResults[k].similarity
          /\ h_pc = "history" =>
                 /\ Len(searchResults') >= Len(searchResults)
                 /\ SubSeq(searchResults', 1, Len(searchResults)) = searchResults]_vars

\* the category pass has added records next to results of the primary search
C6_Witness ==
    /\ h_pc = "feature" /\ path = "standard" /\ passes.category = "ok"
    /\ \E k \in 1..Len(searchResults) : searchResults[k].type = "category"
    /\ \E k \in 1..Len(searchResults) : searchResults[k] \in SeqToSet(primaryResults)

\* C7: after a category pass whose store lookup succeeded, every store record
\* whose name, category or description contains a term of the matched
\* category is in the result list, and each one the primary search had not
\* found carries similarity 1.85 and matchType category.
C7_CategoryPassCoversEveryRecord ==
    (h_pc = "feature" /\ passes.category = "ok") =>
        \A id \in 1..storeSize :
            AnyCategoryTermLike(id, QueryFacts[query].category) =>
                /\ HasId(searchResults, id)
                /\ ~HasId(primaryResults, id) =>
                       Tag(id, CategorySimilarity, "category") \in SeqToSet(searchResults)

\* the store holds a record with this product code
RecordsWithCode(code) ==
    {id \in 1..storeSize : LowerColumns[id].product_code = ToLowerCase(code)}

\* C8: once the result list is ready for the context, it holds the record of
\* every product code the history mentions whose store lookup did not fail,
\* whatever the query and however many codes there are.
C8_EveryHistoryCodeCarriedOver ==
    (h_pc = "context" /\ supabaseOk) =>
        \A k \in 1..Len(historyProductCodes) :
            historyProductCodes[k] \notin failedLookups =>
                \A id \in RecordsWithCode(historyProductCodes[k]) : HasId(searchResults, id)

\* the rows of the store that a lookup of this code matches
CodeMatches(code) ==
    {id \in 1..storeSize : Like(id, "product_code", ToLowerCase(code))
                               \/ Like(id, "name", ToLowerCase(code))}

\* C8: off the fast path, a history code that a listed record carries stays
\* in the list, and each of the first three codes no listed record carries
\* is looked up: when its lookup succeeds, the rows it returns (the matches
\* on code or name, three at most) are in the list, new ones at 1.8.
C8_CarriesOverFirstThreeMissingCodes ==
    [][(h_pc = "history" /\ h_pc' = "context" /\ supabaseOk) =>
          LET codes == HistoryLookupCodes(searchResults, historyProductCodes)
              missing == SeqToSet(MissingCodes(searchResults, historyProductCodes))
          IN  /\ \A c \in SeqToSet(historyProductCodes) \ missing :
                     \E k \in 1..Len(searchResults') :
                         ToLowerCase(searchResults'[k].product_code) = ToLowerCase(c)
              /\ \A k \in 1..Len(codes) :
                     codes[k] \notin failedLookups' =>
                         Cardinality(Ids(searchResults') \cap CodeMatches(codes[k]))
                             >= Min(CodeLookupLimit, Cardinality(CodeMatches(codes[k])))
              /\ \A k \in (Len(searchResults) + 1)..Len(searchResults') :
                     searchResults'[k].similarity = HistorySimilarity]_vars

\* the carry-over has appended the record of a code from the history
C8_Witness ==
    /\ h_pc = "context" /\ path = "standard" /\ passes.history = "ok"
    /\ \E k \in 1..Len(searchResults) :
           /\ searchResults[k].similarity = HistorySimilarity
           /\ \E j \in 1..Len(historyProductCodes) :
                  searchResults[k].id \in RecordsWithCode(historyProductCodes[j])


(***************************************************************************)
(* Properties of filterDatasheetsByCitations                               *)
(***************************************************************************)
\* sub is all picked out of full by strictly increasing positions
IsSubList(sub, full) ==
    \E f \in [1..Len(sub) -> 1..Len(full)] :
        /\ \A i \in 1..Len(sub) : sub[i] = full[f[i]]
        /\ \A i, j \in 1..Len(sub) : i < j => f[i] < f[j]

IsPrefix(a, b) == Len(a) <= Len(b) /\ SubSeq(b, 1, Len(a)) = a

\* C9: the filter returns a sub-list of the candidates, in their order; every
\* datasheet it returns has a code equal to, a prefix of, or prefixed by a
\* product code the response text mentions; and it returns the empty list
\* for an empty response text or no candidates.
C9_CitationSubset ==
    f_pc = "returned" =>
        /\ IsSubList(filtered, allDatasheets)
        /\ \A k \in 1..Len(filtered) :
               \E c \in CitedProductCodes(responseText) :
                   /\ Includes(ToLowerCase(responseText), c)
                   /\ \/ IsPrefix(ToLowerCase(filtered[k].productCode), c)
                      \/ IsPrefix(c, ToLowerCase(filtered[k].productCode))
        /\ (responseText = "" \/ allDatasheets = <<>>) => filtered = <<>>

\* a candidate was kept and another one dropped
C9_Witness ==
    f_pc = "returned" /\ Len(allDatasheets) = 2 /\ Len(filtered) = 1

\* the rule of the claim: equal, or one a prefix of the other with the
\* shorter one at least 4 characters long
CitedBy(code, c) ==
    \/ code = c
    \/ /\ IsPrefix(code, c) \/ IsPrefix(c, code)
       /\ Min(Len(code), Len(c)) >= 4

\* C10: a candidate is kept if and only if some cited code equals its
\* lower-cased code or is in a prefix relation with it whose shorter side has
\* at least 4 characters.
C10_KeptIffCited ==
    f_pc = "returned" /\ responseText # "" =>
        filtered = SelectSeq(allDatasheets,
                             LAMBDA ds : \E c \in CitedProductCodes(responseText) :
                                             CitedBy(ToLowerCase(ds.productCode), c))

\* a candidate in a prefix relation with a cited code of fewer than 4
\* characters was dropped, and one with a longer cited prefix was kept
C10_Witness ==
    /\ f_pc = "returned" /\ Len(filtered) = 1 /\ Len(allDatasheets) = 2
    /\ \E k \in 1..2 : \E c \in CitedProductCodes(responseText) :
          /\ allDatasheets[k] \notin SeqToSet(filtered)
          /\ IsPrefix(c, ToLowerCase(allDatasheets[k].productCode))
          /\ Len(c) < 4
    /\ \E c \in CitedProductCodes(responseText) :
          /\ c # ToLowerCase(filtered[1].productCode)
          /\ IsPrefix(c, ToLowerCase(filtered[1].productCode))

\* the code has the shape of the bold patterns' group: 2-3 letters, digits or
\* dots, then letters or digits
CodeShaped(c) == Len(c) \in Ends(BoldCode, c, 0)

\* the code has the shape the unbolded pattern accepts
BareShaped(c) == Len(c) \in Ends(unboldedPattern, c, 0)

\* the text has **c** or **c description**
MentionedBold(c, text) ==
    \/ Test(Lit("**" \o c \o "**"), text)
    \/ Test(Cat(<<Lit("**" \o c), Plus(Ws), Plus(NotCls("*")), Lit("**")>>), text)

\* the text has c as a word of its own
MentionedBare(c, text) == Test(Cat(<<WB, Lit(c), WB>>), text)

BypassQueries ==
    {q \in HelperQueries :
        \/ Test(Cat(<<Rep(Letter, 2, 3), Plus(Cls(Digits \o ".")), Star(Letter)>>), q)
        \/ Includes(q, "_") \/ Includes(q, "-")
        \/ \E ph \in {"category", "list of", "what classes"} : Includes(ToLowerCase(q), ph)}

\* C12: for a query with a product-code pattern, with '_' or '-', or that
\* is a meta question, expandQuery issues no completion call and returns
\* the query unchanged, whatever the history
C12_BypassReturnsQueryWithoutCall ==
    (fn = "expandQuery" /\ arg \in BypassQueries) =>
        /\ genCalls = 0 /\ gen = NoGen
        /\ fn_pc \in {"called", "returned"}
        /\ fn_pc = "returned" => expanded = arg

C12_Witness ==
    /\ fn = "expandQuery" /\ fn_pc = "returned" /\ aiReady
    /\ arg = "life-jacket storage" /\ argHistory # <<>>
    /\ expanded = arg /\ genCalls = 0

\* the completion call failed, timed out, or gave a result the helper
\* cannot read
GenUnusable == gen.st \in {"error", "timeout"} \/ (gen.st = "ok" /\ ~gen.hasResponse)

\* C13: expandQuery never raises; it returns exactly the query when its
\* completion call fails, gives an unusable result or times out; and a call
\* that is awaiting the completion always returns
C13_ExpandQueryFallsBack ==
    /\ [](fn = "expandQuery" =>
            /\ fn_pc # "raised"
            /\ (fn_pc = "returned" /\ GenUnusable) => expanded = arg)
    /\ ((fn = "expandQuery" /\ fn_pc = "awaiting") ~> (fn_pc = "returned"))

C13_Witness ==
    /\ fn = "expandQuery" /\ fn_pc = "returned" /\ genCalls = 1
    /\ gen.st = "ok" /\ ~gen.hasResponse /\ expanded = arg

\* the lines of a completion's text that are longer than 5 characters once
\* trimmed, in order
LongLines(text) ==
    LET ls == Lines(text)
        kept == {k \in 1..Len(ls) : Len(Trim(ls[k])) > 5}
        Nth[n \in 0..Len(ls)] ==
            IF n = 0 THEN <<>>
            ELSE IF n \in kept THEN Append(Nth[n - 1], Trim(ls[n])) ELSE Nth[n - 1]
    IN  Nth[Len(ls)]

\* C14: decomposeEnquiry returns a non-empty list: [query] without a
\* completion call for a query under 150 characters; [query] when the call
\* fails, times out or yields no phrase longer than 5 characters; otherwise
\* the trimmed lines of the response that are longer than 5 characters
C14_DecomposeContract ==
    fn = "decomposeEnquiry" =>
        /\ Len(arg) < 150 => genCalls = 0
        /\ fn_pc # "raised"
        /\ fn_pc = "returned" =>
            /\ phrases # <<>>
            /\ Len(arg) < 150 => phrases = <<arg>>
            /\ gen.st \in {"error", "timeout"} => phrases = <<arg>>
            /\ gen.st = "ok" =>
                  phrases = IF LongLines(gen.text) = <<>> THEN <<arg>> ELSE LongLines(gen.text)

(***************************************************************************)
(* Properties of the response stream                                       *)
(***************************************************************************)
EventsOfType(type) == {k \in 1..Len(events) : events[k].type = type}

\* no search, lookup, statistics or completion call has been made
NoCallMade ==
    /\ IdleSearchCall
    /\ searchResults = <<>> /\ primaryResults = <<>> /\ passes = NoPasses /\ failedLookups = {}
    /\ stream = "none" /\ referencedDatasheets = <<>>

\* C15 as stated: a request without a query is rejected with status 400
\* before any header or event is committed, and no call is made for it
C15_RejectedBeforeAnythingIsCommitted ==
    (query = "" /\ h_pc # "received") => (statusCode = 400 /\ events = <<>> /\ NoCallMade)

\* C15: a request without a query is rejected at once and without any
\* search, statistics or completion call, but inside the stream: after the
\* headers (status 200) and the first status event, by one error event,
\* after which the response is ended
C15_RejectedInsideTheStream ==
    (query = "" /\ h_pc # "received") =>
        /\ h_pc = "returned"
        /\ statusCode = 200
        /\ Len(events) = 2
        /\ events[1] = [type |-> "status", text |-> "Analyzing query...", datasheets |-> <<>>]
        /\ events[2] = [type |-> "error", text |-> "Query is required", datasheets |-> <<>>]
        /\ ended /\ requestDone /\ globalTimer = "cleared"
        /\ NoCallMade

C15_Witness ==
    query = "" /\ history # <<>> /\ h_pc = "returned" /\ ended /\ Len(events) = 2

\* C16: when the global timer fires on a response that has not ended, an
\* error event is written and the response is ended in that step, wherever
\* the handler stands; and every response that was started is ended
C16_GlobalDeadlineClosesTheStream ==
    /\ [][(globalTimer = "armed" /\ globalTimer' = "fired" /\ ~ended) =>
             /\ ended'
             /\ Len(events') = Len(events) + 1
             /\ events'[Len(events')].type = "error"
             /\ SubSeq(events', 1, Len(events)) = events]_vars
    /\ ((statusCode = 200) ~> ended)

\* the timer has ended a response whose search never returned
C16_Witness ==
    /\ globalTimer = "fired" /\ ended
    /\ h_pc = "searching" /\ rpc.st = "hung"
    /\ events[Len(events)].type = "error"

\* C17: when the initial completion call fails, cannot be made for want of
\* an AI client, or runs into its 45 s timer, the response holds exactly one
\* error event, no chunk and no done event, and is ended
C17_GenerationFailureIsOneErrorEvent ==
    stream \in {"failed", "timeout", "unavailable"} =>
        /\ Cardinality(EventsOfType("error")) = 1
        /\ EventsOfType("chunk") = {} /\ EventsOfType("done") = {}
        /\ ended
        /\ h_pc = "returned"

C17_Witness ==
    /\ stream = "timeout" /\ globalTimer = "armed" /\ ended
    /\ events[Len(events)].type = "error" /\ path = "standard"

\* C18 as stated: when the iteration of the completion stream fails after
\* chunks were delivered (and the global timer has not fired), no error
\* event is written, the client receives the text so far with the cut-short
\* marker, and that text with the marker is what the client finally holds
C18_ClientKeepsPartialTextWithMarker ==
    (stream = "broken" /\ chunkCount > 0 /\ globalTimer # "fired") =>
        /\ EventsOfType("error") = {}
        /\ \E k \in EventsOfType("chunk") : events[k].text = fullText \o CutShortMarker
        /\ ClientRead(events) = [text |-> fullText \o CutShortMarker, failed |-> FALSE]

(***************************************************************************)
(* Properties of getKnowledgeBaseStats                                     *)
(***************************************************************************)
Refreshing == {c \in Callers : callers[c].pc = "refreshing"}

\* C19 as stated: at most one refresh of the statistics cache is in flight
C19_AtMostOneRefreshInFlight == Cardinality(Refreshing) <= 1

\* C19: a call starts a refresh exactly when it finds the cache empty or at
\* least the TTL old (and a store client), whatever other refreshes are in
\* flight; a call that returns at once with a store client returns a cache
\* younger than the TTL and leaves the cache alone
C19_EveryStaleCallRefreshes ==
    [][\A c \in Callers :
          (callers[c].pc \in {"idle", "returned"} /\ callers'[c] # callers[c]) =>
              LET stale == ~kbStatsCache.set \/ now - kbStatsLastUpdated >= 600000
              IN  /\ (supabaseOk /\ stale) => callers'[c].pc = "refreshing"
                  /\ (supabaseOk /\ ~stale) =>
                        /\ callers'[c].pc = "returned"
                        /\ callers'[c].result = kbStatsCache
                  /\ UNCHANGED <<kbStatsCache, kbStatsLastUpdated>>]_vars

\* two refreshes in flight at once
C19_Witness == Cardinality(Refreshing) = 2 /\ supabaseOk

(***************************************************************************)
(* Properties of the result sets                                           *)
(***************************************************************************)
\* no two entries of the list have product codes that are equal ignoring case
UniqueCodes(codes) ==
    \A i, j \in 1..Len(codes) : i # j => ToLowerCase(codes[i]) # ToLowerCase(codes[j])

CodesOf(results) == [k \in 1..Len(results) |-> results[k].product_code]

DatasheetCodes == [k \in 1..Len(referencedDatasheets) |-> referencedDatasheets[k].productCode]

UniqueIds(results) == \A i, j \in 1..Len(results) : i # j => results[i].id # results[j].id

\* C20 as stated: the list searchProducts returns, the request's result list
\* and the datasheet list each hold a product code at most once, ignoring case
C20_CodesUniqueInEveryResultSet ==
    /\ sp_pc = "returned" => UniqueCodes(CodesOf(sp_result))
    /\ UniqueCodes(CodesOf(searchResults))
    /\ UniqueCodes(DatasheetCodes)

\* C20: the list searchProducts returns and the request's result list hold
\* a record id at most once; the datasheet list holds a product code at most
\* once ignoring case, and names every code of the result list it was built
\* from
C20_IdsUniqueAndDatasheetCodesUnique ==
    /\ sp_pc = "returned" => UniqueIds(sp_result)
    /\ UniqueIds(searchResults)
    /\ UniqueCodes(DatasheetCodes)
    /\ h_pc \in {"stats", "generating", "streaming", "returned"} =>
          \A k \in 1..Len(searchResults) :
              \E d \in 1..Len(referencedDatasheets) :
                  ToLowerCase(referencedDatasheets[d].productCode)
                      = ToLowerCase(searchResults[k].product_code)

\* two records with the codes JB02HR and jb02hr in the result list, one
\* datasheet for them
C20_Witness ==
    /\ h_pc = "streaming"
    /\ ~UniqueCodes(CodesOf(searchResults))
    /\ referencedDatasheets # <<>>

(***************************************************************************)
(* Properties of searchProducts: queries with several product codes        *)
(***************************************************************************)
\* the records of the store that the keyword query for part number p matches
KeywordMatches(p) == {id \in 1..storeSize : CodeOrNameLike(id, p)}

\* C21: when the question mentions several product codes, each matching at
\* least one record, matchCount is at least the number of codes and every
\* keyword query succeeds, the returned list holds a matching record for
\* every code
C21_EveryMentionedCodeIsCovered ==
    (/\ sp_pc = "returned" /\ h_pc = "idle"
     /\ Len(partNumbers) >= 2 /\ matchCount >= Len(partNumbers)
     /\ \A i \in 1..Len(partNumbers) : kw[i].st = "ok" /\ KeywordMatches(partNumbers[i]) # {})
    => \A i \in 1..Len(partNumbers) :
          \E k \in 1..Len(sp_result) : sp_result[k].id \in KeywordMatches(partNumbers[i])

(***************************************************************************)
(* Properties of the chat stream handler: order of the steps               *)
(***************************************************************************)
\* the context block has been assembled or is about to be
FromContextOn == h_pc \in {"context", "stats", "generating", "streaming"} \/ stream # "none"

\* C22: the steps of a request are ordered: from the assembly of the context
\* on no search call of the request is outstanding and the result list no
\* longer changes, and the completion call is issued with the context that
\* was assembled from that final list
C22_StepsAreOrdered ==
    /\ [](FromContextOn => IdleSearchCall)
    /\ [][FromContextOn => searchResults' = searchResults]_vars
    /\ [][(stream = "none" /\ stream' # "none")
            => /\ h_pc \in {"context", "stats"}
               /\ referencedDatasheets' = ExtractDatasheetReferences(searchResults')]_vars

\* a completion call issued after a primary search and a supplemental pass
C22_Witness ==
    /\ stream = "pending" /\ path = "standard"
    /\ primaryResults # <<>> /\ passes.category = "ok"
    /\ Len(searchResults) > Len(primaryResults)

(***************************************************************************)
(* Properties of the merge of several searchProducts lists                 *)
(***************************************************************************)
\* the lists of one request have been merged
ListsMerged == h_pc = "specValue" /\ Len(resultsArrays) >= 2

\* the findings of the product id in the lists of the calls
Findings(id) ==
    {r \in UNION {SeqToSet(resultsArrays[a]) : a \in 1..Len(resultsArrays)} : r.id = id}

\* the finding of the product id in the first list that holds it
FirstFinding(id) ==
    LET a == SetMin({b \in 1..Len(resultsArrays) : HasId(resultsArrays[b], id)})
    IN  CHOOSE r \in SeqToSet(resultsArrays[a]) : r.id = id

IdsFound == UNION {Ids(resultsArrays[a]) : a \in 1..Len(resultsArrays)}

SortedBySimilarity(results) ==
    \A k \in 1..(Len(results) - 1) : results[k].similarity >= results[k + 1].similarity

\* the largest bound of a pass
MaxListLength == CategoryCap

\* C24 as stated: the list handed to context assembly is sorted in
\* non-increasing order of similarity and has at most 30 entries
C24_ContextListSortedAndBounded ==
    (h_pc = "context" /\ path # "fast") =>
        SortedBySimilarity(searchResults) /\ Len(searchResults) <= MaxListLength

\* C24: the spec-value, category and feature passes leave the list sorted in
\* non-increasing order of similarity and, when they change it, cut to their
\* bound (25, 30, 30); the history carry-over neither sorts nor cuts: it
\* appends at most 3 x 3 entries of similarity 1.8 behind the list it found
C24_SortedAndCutBeforeCarryOver ==
    [][PassStep =>
          IF h_pc = "history"
          THEN /\ Len(searchResults') <= Len(searchResults) + MaxHistoryLookups * CodeLookupLimit
               /\ SubSeq(searchResults', 1, Len(searchResults)) = searchResults
               /\ SortedBySimilarity(searchResults)
               /\ Len(searchResults) <= MaxListLength
               /\ \A k \in (Len(searchResults) + 1)..Len(searchResults') :
                      searchResults'[k].similarity = HistorySimilarity
          ELSE /\ SortedBySimilarity(searchResults')
               /\ Len(searchResults') <= MaxListLength
               /\ searchResults' # searchResults => Len(searchResults') <= PassCap(h_pc)]_vars

\* the carry-over has appended a record behind one of lower similarity, after
\* a category pass that sorted the list
C24_Witness ==
    /\ h_pc = "context" /\ path = "standard"
    /\ passes.category = "ok" /\ passes.history = "ok"
    /\ ~SortedBySimilarity(searchResults)

(***************************************************************************)
(* Properties of the chunk loop and of the writes to the response          *)
(***************************************************************************)
\* C25: when the completion stream stalls (no further chunk, no end, no
\* failure) the chunk loop is left and the handler goes on to the citation
\* filter and finishes
C25_StalledStreamIsLeft == (stream = "stalled") ~> (h_pc = "returned")

TerminalEvents == EventsOfType("done") \cup EventsOfType("error")

\* C26 as stated: at most one terminal event is written and no write of any
\* kind is made once a terminal event has been written or the response has
\* been ended
C26_NoWriteAfterTheEnd ==
    /\ Cardinality(TerminalEvents) <= 1
    /\ lateWrites = {}

\* C26: at most one terminal event (done or error) reaches the client, it is
\* the last event of the response and the response is ended in the step
\* that writes it; after the end, and after the client has closed the
\* connection, nothing more reaches the client.  Writes are still attempted
\* after the end (they are dropped).
C26_OneTerminalEventReachesTheClient ==
    /\ [](/\ Cardinality(TerminalEvents) <= 1
          /\ \A k \in TerminalEvents : k = Len(events) /\ ended
          /\ lateWrites # {} => ended
          /\ closed => requestDone)
    /\ [][(ended \/ closed) => events' = events]_vars

\* after the completion call failed the global timer has fired, and after the
\* timer ended a response the handler and the heartbeat have gone on writing:
\* the attempts are recorded and one terminal event has reached the client
C26_Witness ==
    /\ ended /\ Cardinality(TerminalEvents) = 1
    /\ {"error", "keepalive"} \subseteq lateWrites

(***************************************************************************)
(* Properties of getKnowledgeBaseStats: the order of concurrent refreshes  *)
(***************************************************************************)
\* C27 as stated: kbStatsLastUpdated never decreases (the cache is never
\* replaced by the result of a refresh that started before the one cached)
C27_CacheNeverMovesBackwards == [][kbStatsLastUpdated' >= kbStatsLastUpdated]_vars

\* C27: the cache and kbStatsLastUpdated are written by a refresh that
\* settles and by nothing else, and they then hold that refresh's result and
\* the time of its call, whatever is cached: the refresh that settles last
\* wins, so kbStatsLastUpdated can decrease, by less than the 5 s within
\* which a refresh settles or is cut off; it never lies in the future
C27_LastSettledRefreshWins ==
    /\ [](kbStatsLastUpdated <= now)
    /\ [][(kbStatsLastUpdated' # kbStatsLastUpdated \/ kbStatsCache' # kbStatsCache) =>
             \E c \in Refreshing :
                 /\ callers'[c].pc = "returned"
                 /\ kbStatsCache' = callers'[c].result
                 /\ kbStatsLastUpdated' = callers[c].at
                 /\ kbStatsLastUpdated' > kbStatsLastUpdated - StatsTimeout]_vars

\* the cache holds the result of a refresh while a refresh that started
\* before it is still in flight
C27_Witness ==
    /\ kbStatsCache.set
    /\ \E c \in Refreshing : callers[c].at < kbStatsLastUpdated

(***************************************************************************)
(* Properties of the client's getSelectionResponseStream                   *)
(***************************************************************************)
\* the finished lines of the text
LinesOf(text) == WholeLines(SplitNewline(text))

\* the line is an error event
IsErrorLine(line) ==
    /\ StartsWith(Trim(line), "data: ")
    /\ LET r == JsonParse(SubSeq(Trim(line), 7, Len(Trim(line))))
       IN  r.ok /\ StringOr(r.val, "type", "") = "error"

\* C28: every error event the server sends makes the call reject, whatever
\* its message: the call never resolves after an error event was received
C28_EveryErrorEventRejects ==
    c_pc = "resolved" =>
        \A k \in 1..Len(LinesOf(body)) : ~IsErrorLine(LinesOf(body)[k])

\* C29: whatever the reads, the client has processed exactly the finished
\* lines of the text received so far, each once and in order: its text, its
\* datasheets and its onChunk calls are those of one read of that text, and
\* the line buffer holds the unfinished rest; so the outcome of the call is
\* that of reading the whole body at once
C29_OutcomeIndependentOfReads ==
    LET got == SubSeq(body, 1, received)
    IN  /\ c_pc \in {"reading", "resolved"} =>
              /\ client = ProcessLines(NewClient, LinesOf(got))
              /\ lineBuffer = PartialLine(SplitNewline(got))
        /\ c_pc = "resolved" => received = Len(body)
        /\ c_pc = "rejected" =>
              /\ client.thrown
              /\ client = ProcessLines(NewClient, LinesOf(body))
              /\ client = ProcessLines(NewClient, LinesOf(got))

\* a read has ended in the middle of a data line, after the lines before it
\* were processed
C29_Witness ==
    /\ c_pc = "reading" /\ Len(client.calls) = 2
    /\ StartsWith(lineBuffer, "data: {\"type\":\"done\"") /\ Len(lineBuffer) < 40

(***************************************************************************)
(* Properties of the chat UI's session state                               *)
(***************************************************************************)
\* C30: after any sequence of new-chat, select-session and delete-session
\* operations the session list is not empty and the active session id names
\* a session of the list; a step that leaves none of the listed sessions
\* (the last remaining session is deleted) leaves the fresh default session
\* alone in the list, and active
C30_ActiveSessionIsListed ==
    /\ [](sessions # <<>> /\ activeSessionId \in SessionIds(sessions))
    /\ [][(SessionIds(sessions') \cap SessionIds(sessions) = {}) =>
             (sessions' = <<DefaultSession>> /\ activeSessionId' = "session-default")]_vars

\* the last session has been deleted after chats were opened and deleted:
\* the default session is alone in the list, and active
C30_Witness ==
    /\ sessions = <<DefaultSession>> /\ activeSessionId = "session-default"
    /\ uiClock > FirstClock

====
